---- MODULE Spec2Model ----
(***************************************************************************)
(* A model of the account-registration dashboard:                          *)
(*   - src/server.py : the run state (AppState), the background worker     *)
(*                     thread and the HTTP handlers of the control API;    *)
(*   - src/utils.py  : the ledger upsert save_to_txt;                      *)
(*   - src/browser.py: the login flow.                                     *)
(* Each component has its own specification over the shared variables:     *)
(*   Spec        the control server (worker threads and HTTP handlers),    *)
(*   SpecLog     the log ring buffer and a polling status client,          *)
(*   SpecLedger  the ledger file, its writer and a concurrent reader,      *)
(*   SpecLogin   one call of login().                                      *)
(***************************************************************************)
EXTENDS Integers, Sequences, FiniteSets, TLC

VARIABLES
    \* ---- src/server.py: AppState fields ----
    is_running, stop_requested, success_count, fail_count, current_action,
    last_frame, logs,
    \* ---- src/server.py: worker threads (one per threading.Thread started) ----
    wpc,        \* position of each worker thread in worker_thread
    wcount,     \* its argument count
    wi,         \* its loop variable i
    wticks,     \* ticks left of its pacing sleep (range(wait_time))
    wreg,       \* the value it loaded for a `+= 1` between the load and the store
    wcalls,     \* monitor-callback invocations of the registration in progress
    \* ---- src/server.py: HTTP handler threads ----
    hpc,        \* position of each handler thread
    resp,       \* the response sent last: <<endpoint, HTTP status, body>>
    \* ---- history of the run, for the properties ----
    stopAcked,  \* workers whose run was active when a stop was acknowledged
    \* ---- log polling client of /api/status ----
    appended,   \* number of add_log calls so far
    clientLog,  \* the entries the client has received, in order
    polledAt,   \* number of add_log calls that had completed at its last poll
    \* ---- src/utils.py: the ledger file system and save_to_txt ----
    inodes,     \* the content of every file (inode); <<>> when it is free
    paths,      \* the directory: the inode a path names, 0 when it names none
    clock,      \* datetime.now(), in seconds after the start
    ncalls,     \* save_to_txt calls so far
    spc,        \* position of the writer in save_to_txt
    sargs,      \* its arguments and current_date
    snorm,      \* its normalized_lines
    swritten,   \* how many of them it has written to the temp file
    soutcome,   \* how its last call ended
    sold,       \* the ledger (inode and content) when the call began
    committed,  \* the last complete content of the ledger
    rpc, rino, rpos, rlines,   \* a reader: position, open file, offset, lines read
    rsnap,      \* the text of the complete content the ledger had when the
                \* reader opened it
    \* ---- src/browser.py: login ----
    lpc, lenv, lresult,
    \* ---- one call of a function of src/utils.py or src/server.py ----
    fop,        \* the function called, "none" before the call
    fin,        \* its inputs (arguments, random draws, the current date)
    fout,       \* what it returned
    \* ---- src/server.py: one request GET /api/accounts ----
    apc,        \* position of the handler in get_accounts
    afile,      \* the ledger file it finds
    apos,       \* the lines of the file it has read
    accounts,   \* its list accounts
    aerr,       \* the exception caught at line 281
    aresp,      \* its response: <<HTTP status, JSON body>>
    \* ---- src/browser.py: one call of handle_stripe_input ----
    dpc,        \* position in handle_stripe_input / traverse_frames
    dctx,       \* the driver's current document: the path of frames entered
    dcalled,    \* the driver's document when the call was made
    dstack,     \* the active traverse_frames calls: their frames and index
    dret,       \* the value the traverse_frames call that ended last returned
    dresult,    \* how handle_stripe_input ended
    draised,    \* the lines of traverse_frames that have raised in this call
    dfill,      \* <<document, k>>: selector k finds the field there
    dshown,     \* the iframe elements that are displayed
    dtried,     \* the find_element calls of try_fill: <<document, k>>
    \* ---- src/browser.py: check_and_handle_error and a loop that drains it ----
    epc,        \* position in the drain loop / check_and_handle_error
    emax,       \* max_retries of the calls
    eattempt,   \* the loop variable attempt of the call
    escans,     \* reads of driver.page_source in the call
    eclicked,   \* the call has clicked the "Try again" control
    ekeyword,   \* what its last read showed: "yes", "no", "raised" ("none")
    eresult,    \* what the call returned ("none" before it returns)
    \* ---- src/server.py: the two locks of AppState ----
    kpc,        \* position of each thread in a method of AppState
    lock,       \* the thread that holds state.lock, "free" when none does
    frame_lock, \* the thread that holds state.frame_lock
    \* ---- src/browser.py: one call of subscribe_plus_trial ----
    tpc,        \* position in subscribe_plus_trial
    retry_count, \* retry_count of the running find_and_click_subscribe call
    entered,    \* calls of find_and_click_subscribe made so far
    refreshes,  \* calls of driver.refresh() made so far
    search_result, \* what find_and_click_subscribe() returned ("none" before)
    attempt,    \* the loop variable attempt of loop_submit_and_fix
    clicks,     \* clicks on the submit button made so far
    tctx,       \* the driver's current document: "top" or an iframe
    tscan,      \* index in all_frames of the frame being scanned
    check_result, \* how loop_submit_and_fix ended ("none" before it ends)
    elapsed,    \* seconds since start_time of the final poll
    seen,       \* what the last iteration of the final poll observed
    tresult     \* how subscribe_plus_trial ended ("none" before it ends)

serverVars == <<is_running, stop_requested, success_count, fail_count,
                current_action, last_frame, wpc, wcount, wi, wticks, wreg,
                wcalls, hpc, resp, stopAcked>>
logVars    == <<logs, appended, clientLog, polledAt>>
ledgerVars == <<inodes, paths, clock, ncalls, spc, sargs, snorm, swritten,
                soutcome, sold, committed, rpc, rino, rpos, rlines, rsnap>>
loginVars  == <<lpc, lenv, lresult>>
callVars   == <<fop, fin, fout>>
accountsVars == <<apc, afile, apos, accounts, aerr, aresp>>
lockVars   == <<kpc, lock, frame_lock>>
errorVars  == <<epc, emax, eattempt, escans, eclicked, ekeyword, eresult>>
stripeVars == <<dpc, dctx, dcalled, dstack, dret, dresult, draised, dfill,
                dshown, dtried>>
trialVars  == <<tpc, retry_count, entered, refreshes, search_result, attempt,
                clicks, tctx, tscan, check_result, elapsed, seen, tresult>>
vars       == <<serverVars, logVars, ledgerVars, loginVars, callVars,
                accountsVars, stripeVars, errorVars, lockVars, trialVars>>

(***************************************************************************)
(* Bounds of the model.                                                    *)
(***************************************************************************)
MaxCount == 2          \* largest count an operator asks for
MaxMonitorCalls == 1   \* monitor-callback invocations per registration
MaxInterval == 1       \* cfg.batch.interval_max of the modelled configuration
MaxLag == 2            \* add_log calls the polling client lets pass between polls
MaxSaves == 2          \* save_to_txt calls in one behaviour

\* The worker threads a behaviour may start: the thread of a run and the
\* thread of a second start.  Thread 1 is started first.
Workers  == {1, 2}
\* The thread of the HTTP server's pool that serves the control endpoints.
Handlers == {"h1"}
\* The count of a start request.
Counts   == 0..MaxCount
\* cfg.batch.interval_min .. cfg.batch.interval_max
Intervals == 1..MaxInterval

None == "None"

(***************************************************************************)
(* src/server.py: AppState.__init__ and the threads before any request.    *)
(***************************************************************************)
InitServer ==
    /\ is_running = FALSE
    /\ stop_requested = FALSE
    /\ success_count = 0
    /\ fail_count = 0
    /\ current_action = <<"waiting">>
    /\ last_frame = None
    /\ wpc = [w \in Workers |-> "unborn"]
    /\ wcount = [w \in Workers |-> 0]
    /\ wi = [w \in Workers |-> 0]
    /\ wticks = [w \in Workers |-> 0]
    /\ wreg = [w \in Workers |-> 0]
    /\ wcalls = [w \in Workers |-> 0]
    /\ hpc = [h \in Handlers |-> "idle"]
    /\ resp = <<"none", 0, "none">>
    /\ stopAcked = {}

\* A worker whose run is active: it has executed `state.is_running = True`
\* (line 89) and not yet `state.is_running = False` (line 148).
ActivePcs == {"l90", "l91", "l92", "l93", "l96", "loop", "l120", "reg", "l110",
              "l127w", "l129w", "l134w", "l138",
              "sleep", "l148"}
\* A worker thread that exists: between Thread.start() and its return.
LivePcs == ActivePcs \cup {"l89", "l149"}

Live(w) == wpc[w] \in LivePcs
Active(w) == wpc[w] \in ActivePcs

othersUnchanged ==
    UNCHANGED <<logVars, ledgerVars, loginVars, callVars, accountsVars,
                stripeVars, errorVars, lockVars,
                trialVars>>
handlersUnchanged == UNCHANGED <<hpc, resp, stopAcked>>
countersUnchanged == UNCHANGED <<success_count, fail_count>>
localsUnchanged == UNCHANGED <<wcount, wi, wticks, wreg, wcalls>>

Goto(w, l) == wpc' = [wpc EXCEPT ![w] = l]

(***************************************************************************)
(* src/server.py: worker_thread(count), one action per statement that      *)
(* reads or writes the shared run state.  main.print only appends to the   *)
(* log buffer (hooked_print -> AppState.add_log), which no guard of the    *)
(* worker or of a handler reads; the buffer is modelled under SpecLog.     *)
(***************************************************************************)
\* line 89: state.is_running = True
W89(w) ==
    /\ wpc[w] = "l89"
    /\ is_running' = TRUE
    /\ Goto(w, "l90")
    /\ UNCHANGED <<stop_requested, current_action, last_frame>>
    /\ countersUnchanged /\ localsUnchanged /\ handlersUnchanged /\ othersUnchanged

\* line 90: state.stop_requested = False
W90(w) ==
    /\ wpc[w] = "l90"
    /\ stop_requested' = FALSE
    /\ Goto(w, "l91")
    /\ UNCHANGED <<is_running, current_action, last_frame>>
    /\ countersUnchanged /\ localsUnchanged /\ handlersUnchanged /\ othersUnchanged

\* line 91: state.success_count = 0
W91(w) ==
    /\ wpc[w] = "l91"
    /\ success_count' = 0
    /\ Goto(w, "l92")
    /\ UNCHANGED <<is_running, stop_requested, fail_count, current_action, last_frame>>
    /\ localsUnchanged /\ handlersUnchanged /\ othersUnchanged

\* line 92: state.fail_count = 0
W92(w) ==
    /\ wpc[w] = "l92"
    /\ fail_count' = 0
    /\ Goto(w, "l93")
    /\ UNCHANGED <<is_running, stop_requested, success_count, current_action, last_frame>>
    /\ localsUnchanged /\ handlersUnchanged /\ othersUnchanged

\* line 93: state.current_action = f"... {count}"
W93(w) ==
    /\ wpc[w] = "l93"
    /\ current_action' = <<"started", wcount[w]>>
    /\ Goto(w, "l96")
    /\ UNCHANGED <<is_running, stop_requested, last_frame>>
    /\ countersUnchanged /\ localsUnchanged /\ handlersUnchanged /\ othersUnchanged

\* line 96: state.update_frame(None); then the loop starts with i = 0
W96(w) ==
    /\ wpc[w] = "l96"
    /\ last_frame' = None
    /\ Goto(w, "loop")
    /\ wi' = [wi EXCEPT ![w] = 0]
    /\ UNCHANGED <<is_running, stop_requested, current_action>>
    /\ UNCHANGED <<wcount, wticks, wreg, wcalls>>
    /\ countersUnchanged /\ handlersUnchanged /\ othersUnchanged

\* lines 115-118: for i in range(count): if state.stop_requested: break
WLoop(w) ==
    /\ wpc[w] = "loop"
    /\ IF wi[w] >= wcount[w] \/ stop_requested
         THEN Goto(w, "l148")
         ELSE Goto(w, "l120")
    /\ UNCHANGED <<is_running, stop_requested, current_action, last_frame>>
    /\ countersUnchanged /\ localsUnchanged /\ handlersUnchanged /\ othersUnchanged

\* lines 120-124: state.current_action = ...; main.register_one_account(monitor)
W120(w) ==
    /\ wpc[w] = "l120"
    /\ current_action' = <<"registering", wi[w] + 1, wcount[w]>>
    /\ Goto(w, "reg")
    /\ wcalls' = [wcalls EXCEPT ![w] = 0]
    /\ UNCHANGED <<is_running, stop_requested, last_frame>>
    /\ UNCHANGED <<wcount, wi, wticks, wreg>>
    /\ countersUnchanged /\ handlersUnchanged /\ othersUnchanged

\* main.register_one_account (its body is not part of the sources): the
\* exception the call ends with when its monitor callback has raised `raised`.
\* The orchestration contract has it surface a monitor-raised interruption as
\* such, distinguishable from a generic failure.
register_one_account_surfaces(raised) == raised

\* (an interruption handler that counted the interrupted registration as a
\* failure before breaking)
WMonitorCheck_CountsInterrupt(w) ==
    /\ wpc[w] = "reg"
    /\ wcalls[w] < MaxMonitorCalls
    /\ IF stop_requested
         THEN /\ Goto(w, "l148") /\ wcalls' = [wcalls EXCEPT ![w] = 0]
              /\ fail_count' = fail_count + 1
         ELSE /\ Goto(w, "l110") /\ wcalls' = [wcalls EXCEPT ![w] = @ + 1]
              /\ UNCHANGED fail_count
    /\ UNCHANGED <<is_running, stop_requested, current_action, last_frame>>
    /\ UNCHANGED <<wcount, wi, wticks, wreg, success_count>>
    /\ handlersUnchanged /\ othersUnchanged

\* lines 101-105: monitor(driver, step), invoked by the registration in
\* progress: raise InterruptedError when a stop was requested, else go on to
\* the screenshot.  Lines 130-132: the worker catches InterruptedError and
\* breaks out of the loop; lines 133-134: any other exception is counted.
WMonitorCheck(w) ==
    /\ wpc[w] = "reg"
    /\ wcalls[w] < MaxMonitorCalls
    /\ IF stop_requested
         THEN /\ wcalls' = [wcalls EXCEPT ![w] = 0]
              /\ IF register_one_account_surfaces("InterruptedError")
                        = "InterruptedError"
                   THEN Goto(w, "l148") /\ UNCHANGED wreg
                   ELSE /\ Goto(w, "l134w")
                        /\ wreg' = [wreg EXCEPT ![w] = fail_count]
         ELSE /\ Goto(w, "l110") /\ wcalls' = [wcalls EXCEPT ![w] = @ + 1]
              /\ UNCHANGED wreg
    /\ UNCHANGED <<is_running, stop_requested, current_action, last_frame>>
    /\ UNCHANGED <<wcount, wi, wticks>>
    /\ countersUnchanged /\ handlersUnchanged /\ othersUnchanged

\* lines 108-113: state.update_frame(driver.get_screenshot_as_png()), or the
\* screenshot raises and the frame is left as it was.
WMonitorFrame(w) ==
    /\ wpc[w] = "l110"
    /\ \E shot \in BOOLEAN :
          last_frame' = IF shot THEN "png" ELSE last_frame
    /\ Goto(w, "reg")
    /\ UNCHANGED <<is_running, stop_requested, current_action>>
    /\ countersUnchanged /\ localsUnchanged /\ handlersUnchanged /\ othersUnchanged

\* lines 124-129: main.register_one_account returns (email, password,
\* success), and `state.success_count += 1` or `state.fail_count += 1`
\* loads the attribute ...
RegisterReturns(w) ==
    /\ wpc[w] = "reg"
    /\ \E success \in BOOLEAN :
          IF success
            THEN Goto(w, "l127w") /\ wreg' = [wreg EXCEPT ![w] = success_count]
            ELSE Goto(w, "l129w") /\ wreg' = [wreg EXCEPT ![w] = fail_count]
    /\ wcalls' = [wcalls EXCEPT ![w] = 0]
    /\ UNCHANGED <<is_running, stop_requested, current_action, last_frame>>
    /\ UNCHANGED <<wcount, wi, wticks>>
    /\ countersUnchanged /\ handlersUnchanged /\ othersUnchanged

\* lines 133-134: main.register_one_account raises another exception, and
\* `state.fail_count += 1` loads the attribute ...
RegisterRaises(w) ==
    /\ wpc[w] = "reg"
    /\ Goto(w, "l134w")
    /\ wreg' = [wreg EXCEPT ![w] = fail_count]
    /\ wcalls' = [wcalls EXCEPT ![w] = 0]
    /\ UNCHANGED <<is_running, stop_requested, current_action, last_frame>>
    /\ UNCHANGED <<wcount, wi, wticks>>
    /\ countersUnchanged /\ handlersUnchanged /\ othersUnchanged

\* ... and stores the sum back.
WStore(w) ==
    /\ wpc[w] \in {"l127w", "l129w", "l134w"}
    /\ IF wpc[w] = "l127w"
         THEN success_count' = wreg[w] + 1 /\ UNCHANGED fail_count
         ELSE fail_count' = wreg[w] + 1 /\ UNCHANGED success_count
    /\ Goto(w, "l138")
    /\ wreg' = [wreg EXCEPT ![w] = 0]
    /\ UNCHANGED <<is_running, stop_requested, current_action, last_frame>>
    /\ UNCHANGED <<wcount, wi, wticks, wcalls>>
    /\ handlersUnchanged /\ othersUnchanged

\* lines 138-139: if i < count - 1 and not state.stop_requested:
\*                    wait_time = random.randint(interval_min, interval_max)
W138(w) ==
    /\ wpc[w] = "l138"
    /\ IF wi[w] < wcount[w] - 1 /\ ~stop_requested
         THEN /\ \E wait_time \in Intervals :
                    wticks' = [wticks EXCEPT ![w] = wait_time]
              /\ Goto(w, "sleep")
              /\ UNCHANGED wi
         ELSE /\ wi' = [wi EXCEPT ![w] = @ + 1]
              /\ Goto(w, "loop")
              /\ UNCHANGED wticks
    /\ UNCHANGED <<is_running, stop_requested, current_action, last_frame>>
    /\ UNCHANGED <<wcount, wreg, wcalls>>
    /\ countersUnchanged /\ handlersUnchanged /\ othersUnchanged

\* lines 141-143: for _ in range(wait_time):
\*                    if state.stop_requested: break
\*                    time.sleep(1)
WSleep(w) ==
    /\ wpc[w] = "sleep"
    /\ IF wticks[w] = 0 \/ stop_requested
         THEN /\ wi' = [wi EXCEPT ![w] = @ + 1]
              /\ Goto(w, "loop")
              /\ UNCHANGED wticks
         ELSE /\ wticks' = [wticks EXCEPT ![w] = @ - 1]
              /\ UNCHANGED <<wi, wpc>>
    /\ UNCHANGED <<is_running, stop_requested, current_action, last_frame>>
    /\ UNCHANGED <<wcount, wreg, wcalls>>
    /\ countersUnchanged /\ handlersUnchanged /\ othersUnchanged

\* line 148 (finally): state.is_running = False
W148(w) ==
    /\ wpc[w] = "l148"
    /\ is_running' = FALSE
    /\ Goto(w, "l149")
    /\ UNCHANGED <<stop_requested, current_action, last_frame>>
    /\ countersUnchanged /\ localsUnchanged /\ handlersUnchanged /\ othersUnchanged

\* line 149: state.current_action = "...", and the thread returns
W149(w) ==
    /\ wpc[w] = "l149"
    /\ current_action' = <<"finished">>
    /\ Goto(w, "exited")
    /\ wcount' = [wcount EXCEPT ![w] = 0]
    /\ wi' = [wi EXCEPT ![w] = 0]
    /\ stopAcked' = stopAcked \ {w}
    /\ UNCHANGED <<is_running, stop_requested, last_frame>>
    /\ UNCHANGED <<wticks, wreg, wcalls, hpc, resp>>
    /\ countersUnchanged /\ othersUnchanged

(***************************************************************************)
(* src/server.py: the HTTP handlers of /api/start and /api/stop.           *)
(***************************************************************************)
stateUnchanged == UNCHANGED <<is_running, stop_requested, success_count,
                              fail_count, current_action, last_frame>>
workersUnchanged == UNCHANGED <<wpc, wcount, wi, wticks, wreg, wcalls>>

\* Threads started so far, and start requests that may still start one.
Started == {w \in Workers : wpc[w] # "unborn"}
Starting == {h \in Handlers : hpc[h] \in {"s204", "s210"}}

\* A handler thread picks up a POST /api/start (the number of threads a
\* behaviour starts is bounded by Workers) ...
ReceiveStart(h) ==
    /\ hpc[h] = "idle"
    /\ Cardinality(Started) + Cardinality(Starting) < Cardinality(Workers)
    /\ hpc' = [hpc EXCEPT ![h] = "s204"]
    /\ UNCHANGED <<resp, stopAcked>>
    /\ stateUnchanged /\ workersUnchanged /\ othersUnchanged

\* ... or a POST /api/stop.
ReceiveStop(h) ==
    /\ hpc[h] = "idle"
    /\ hpc' = [hpc EXCEPT ![h] = "p215"]
    /\ UNCHANGED <<resp, stopAcked>>
    /\ stateUnchanged /\ workersUnchanged /\ othersUnchanged

\* start_task without its guard: every start goes on to start a thread.
StartCheck_NoGuard(h) ==
    /\ hpc[h] = "s204"
    /\ hpc' = [hpc EXCEPT ![h] = "s210"]
    /\ UNCHANGED <<resp, stopAcked>>
    /\ stateUnchanged /\ workersUnchanged /\ othersUnchanged

\* lines 204-205: if state.is_running: return {"error": "Already running"}, 400
StartCheck(h) ==
    /\ hpc[h] = "s204"
    /\ IF is_running
         THEN /\ resp' = <<"start", 400, "Already running">>
              /\ hpc' = [hpc EXCEPT ![h] = "idle"]
         ELSE /\ hpc' = [hpc EXCEPT ![h] = "s210"]
              /\ UNCHANGED resp
    /\ UNCHANGED stopAcked
    /\ stateUnchanged /\ workersUnchanged /\ othersUnchanged

\* lines 207-211: count = request.json.get('count', 1)
\*                threading.Thread(target=worker_thread, args=(count,)).start()
\*                return {"status": "started"}
StartSpawn(h) ==
    /\ hpc[h] = "s210"
    /\ \E count \in Counts :
          LET w == CHOOSE u \in Workers :
                       wpc[u] = "unborn" /\ \A v \in Workers : wpc[v] = "unborn" => u <= v
          IN  /\ wpc' = [wpc EXCEPT ![w] = "l89"]
              /\ wcount' = [wcount EXCEPT ![w] = count]
    /\ resp' = <<"start", 200, "started">>
    /\ hpc' = [hpc EXCEPT ![h] = "idle"]
    /\ UNCHANGED <<wi, wticks, wreg, wcalls, stopAcked>>
    /\ stateUnchanged /\ othersUnchanged

\* stop_task without its guard: every stop goes on to set the flag.
StopCheck_NoGuard(h) ==
    /\ hpc[h] = "p215"
    /\ hpc' = [hpc EXCEPT ![h] = "p218"]
    /\ UNCHANGED <<resp, stopAcked>>
    /\ stateUnchanged /\ workersUnchanged /\ othersUnchanged

\* lines 215-216: if not state.is_running: return {"error": "Not running"}, 400
StopCheck(h) ==
    /\ hpc[h] = "p215"
    /\ IF ~is_running
         THEN /\ resp' = <<"stop", 400, "Not running">>
              /\ hpc' = [hpc EXCEPT ![h] = "idle"]
         ELSE /\ hpc' = [hpc EXCEPT ![h] = "p218"]
              /\ UNCHANGED resp
    /\ UNCHANGED stopAcked
    /\ stateUnchanged /\ workersUnchanged /\ othersUnchanged

\* lines 218-219: state.stop_requested = True; return {"status": "stopping"}
StopSet(h) ==
    /\ hpc[h] = "p218"
    /\ stop_requested' = TRUE
    /\ resp' = <<"stop", 200, "stopping">>
    /\ hpc' = [hpc EXCEPT ![h] = "idle"]
    /\ stopAcked' = stopAcked \cup {w \in Workers : Active(w)}
    /\ UNCHANGED <<is_running, success_count, fail_count, current_action, last_frame>>
    /\ workersUnchanged /\ othersUnchanged

WorkerStep(w) ==
    \/ W89(w) \/ W90(w) \/ W91(w) \/ W92(w) \/ W93(w) \/ W96(w)
    \/ WLoop(w) \/ W120(w)
    \/ WMonitorCheck(w) \/ WMonitorFrame(w)
    \/ RegisterReturns(w) \/ RegisterRaises(w)
    \/ WStore(w)
    \/ W138(w) \/ WSleep(w)
    \/ W148(w) \/ W149(w)

HandlerStep(h) ==
    \/ ReceiveStart(h) \/ StartCheck(h) \/ StartSpawn(h)
    \/ ReceiveStop(h) \/ StopCheck(h) \/ StopSet(h)

NextServer ==
    \/ \E w \in Workers : WorkerStep(w)
    \/ \E h \in Handlers : HandlerStep(h)

(***************************************************************************)
(* src/server.py: the log ring buffer (AppState.add_log / get_logs) and a  *)
(* client of GET /api/status that passes as log_index the number of        *)
(* entries it has received.  An entry "[HH:MM:SS] message" is represented  *)
(* by the serial number of the add_log call that appended it.              *)
(***************************************************************************)
LogCapacity == 1000

InitLog ==
    /\ logs = <<>>
    /\ appended = 0
    /\ clientLog = <<>>
    /\ polledAt = 0

\* list.pop(0)
Pop0(list) == SubSeq(list, 2, Len(list))

\* add_log evicting one entry too late.
add_log_LateEviction(buffer, entry) ==
    LET grown == Append(buffer, entry)
    IN  IF Len(grown) > LogCapacity + 1 THEN Pop0(grown) ELSE grown

\* lines 51-56: with self.lock: self.logs.append(...)
\*                              if len(self.logs) > 1000: self.logs.pop(0)
add_log(buffer, entry) ==
    LET grown == Append(buffer, entry)
    IN  IF Len(grown) > LogCapacity THEN Pop0(grown) ELSE grown

\* lines 58-60: with self.lock: return list(self.logs[start_index:])
get_logs(buffer, start_index) ==
    IF start_index >= Len(buffer) THEN <<>>
    ELSE SubSeq(buffer, start_index + 1, Len(buffer))

\* Any thread (the worker, a print hook) appends one entry.
AddLog ==
    /\ appended - Len(clientLog) < MaxLag
    /\ appended' = appended + 1
    /\ logs' = add_log(logs, appended + 1)
    /\ UNCHANGED <<clientLog, polledAt>>
    /\ UNCHANGED <<serverVars, ledgerVars, loginVars, callVars, accountsVars,
                 stripeVars, errorVars, lockVars,
                trialVars>>

\* lines 181-200: get_status returns state.get_logs(int(log_index)); the
\* client adds what it received to what it has.
PollStatus ==
    /\ polledAt < appended
    /\ clientLog' = clientLog \o get_logs(logs, Len(clientLog))
    /\ polledAt' = appended
    /\ UNCHANGED <<logs, appended>>
    /\ UNCHANGED <<serverVars, ledgerVars, loginVars, callVars, accountsVars,
                 stripeVars, errorVars, lockVars,
                trialVars>>

NextLog == AddLog \/ PollStatus

(***************************************************************************)
(* Strings are sequences of one-character strings, so that strip, split,   *)
(* find and the time formats are computed as Python computes them.         *)
(***************************************************************************)
Digits == <<"0", "1", "2", "3", "4", "5", "6", "7", "8", "9">>
IsDigit(c) == \E i \in 1..10 : Digits[i] = c
DigitVal(c) == (CHOOSE i \in 1..10 : Digits[i] = c) - 1
\* str.isspace for the characters of the model
IsSpace(c) == c \in {" ", "\n", "\t", "\r"}

\* The value None of an optional str argument (no string contains it)
PyNone == <<"None">>
\* Python truthiness of an optional str: None and "" are false
Truthy(str) == str # PyNone /\ str # <<>>
\* x or y
Or(x, y) == IF Truthy(x) THEN x ELSE y

RECURSIVE LStrip(_)
LStrip(str) ==
    IF str # <<>> /\ IsSpace(Head(str)) THEN LStrip(Tail(str)) ELSE str
RECURSIVE RStrip(_)
RStrip(str) ==
    IF str # <<>> /\ IsSpace(str[Len(str)])
      THEN RStrip(SubSeq(str, 1, Len(str) - 1)) ELSE str
\* str.strip()
Strip(str) == RStrip(LStrip(str))

\* str.startswith(prefix)
StartsWith(str, prefix) ==
    /\ Len(prefix) <= Len(str)
    /\ SubSeq(str, 1, Len(prefix)) = prefix

\* str.find(sub) + 1: the position of the first occurrence, 0 when none
Find(str, sub) ==
    LET hits == {i \in 1..(Len(str) - Len(sub) + 1) :
                    SubSeq(str, i, i + Len(sub) - 1) = sub}
    IN  IF hits = {} THEN 0 ELSE CHOOSE i \in hits : \A j \in hits : i <= j

\* sub in str
Contains(str, sub) == Find(str, sub) # 0

\* str.split(sep, maxsplit)
RECURSIVE Split(_, _, _)
Split(str, sep, maxsplit) ==
    LET at == Find(str, sep)
    IN  IF maxsplit = 0 \/ at = 0 THEN <<str>>
        ELSE <<SubSeq(str, 1, at - 1)>>
             \o Split(SubSeq(str, at + Len(sep), Len(str)), sep, maxsplit - 1)

\* [p.strip() for p in parts]
StripAll(parts) == [i \in 1..Len(parts) |-> Strip(parts[i])]

\* "".join(lines)
RECURSIVE Join(_)
Join(lines) == IF lines = <<>> THEN <<>> ELSE Head(lines) \o Join(Tail(lines))

\* f.readlines(): the lines of a text, each with its "\n" (the last line
\* may have none)
RECURSIVE ReadLines(_)
ReadLines(text) ==
    LET at == Find(text, <<"\n">>)
    IN  IF text = <<>> THEN <<>>
        ELSE IF at = 0 THEN <<text>>
        ELSE <<SubSeq(text, 1, at)>> \o ReadLines(SubSeq(text, at + 1, Len(text)))

\* open(path, "r") reads in text mode with universal newlines: "\r\n" and
\* "\r" reach the program as "\n" (writing in text mode leaves "\n" as it is)
RECURSIVE TextModeRead(_)
TextModeRead(bytes) ==
    IF \A i \in 1..Len(bytes) : bytes[i] # "\r" THEN bytes
    ELSE IF Head(bytes) = "\r"
      THEN IF Len(bytes) > 1 /\ bytes[2] = "\n"
             THEN <<"\n">> \o TextModeRead(SubSeq(bytes, 3, Len(bytes)))
             ELSE <<"\n">> \o TextModeRead(Tail(bytes))
    ELSE <<Head(bytes)>> \o TextModeRead(Tail(bytes))

\* Decimal value of a string of digits, and a number as `width` digits
RECURSIVE ToInt(_)
ToInt(str) ==
    IF str = <<>> THEN 0
    ELSE 10 * ToInt(SubSeq(str, 1, Len(str) - 1)) + DigitVal(str[Len(str)])
\* str(n) of a natural number
RECURSIVE Str(_)
Str(n) == IF n < 10 THEN <<Digits[n + 1]>> ELSE Str(n \div 10) \o <<Digits[(n % 10) + 1]>>
RECURSIVE Pad(_, _)
Pad(n, width) ==
    IF width = 0 THEN <<>>
    ELSE Pad(n \div 10, width - 1) \o <<Digits[(n % 10) + 1]>>

(***************************************************************************)
(* src/utils.py: save_to_txt and its nested helpers.                       *)
(***************************************************************************)
AllDigits(str) == \A i \in 1..Len(str) : IsDigit(str[i])

\* Days of a month of the proleptic Gregorian calendar (datetime's)
DaysIn(year, month) ==
    IF month \in {4, 6, 9, 11} THEN 30
    ELSE IF month # 2 THEN 31
    ELSE IF (year % 4 = 0 /\ year % 100 # 0) \/ year % 400 = 0 THEN 29 ELSE 28

\* A datetime, or NoTime when strptime raises ValueError
NoTime == [ok |-> FALSE]
MkTime(Y, m, d, H, M, S) ==
    LET year == ToInt(Y)  month == ToInt(m)  day == ToInt(d)
        hour == ToInt(H)  minute == ToInt(M)  second == ToInt(S)
    IN  IF /\ year >= 1 /\ month \in 1..12 /\ day >= 1
           /\ day <= DaysIn(year, month)
           /\ hour <= 23 /\ minute <= 59 /\ second <= 59
          THEN [ok |-> TRUE, year |-> year, month |-> month, day |-> day,
                hour |-> hour, minute |-> minute, second |-> second]
          ELSE NoTime

\* datetime.strptime(value, "%Y<sep>%m<sep>%d %H:%M:%S") on a value whose
\* fields are zero-padded (the forms the ledger is written in)
StrptimeDated(value, sep) ==
    IF /\ Len(value) = 19
       /\ value[5] = sep /\ value[8] = sep /\ value[11] = " "
       /\ value[14] = ":" /\ value[17] = ":"
       /\ AllDigits(SubSeq(value, 1, 4)) /\ AllDigits(SubSeq(value, 6, 7))
       /\ AllDigits(SubSeq(value, 9, 10)) /\ AllDigits(SubSeq(value, 12, 13))
       /\ AllDigits(SubSeq(value, 15, 16)) /\ AllDigits(SubSeq(value, 18, 19))
      THEN MkTime(SubSeq(value, 1, 4), SubSeq(value, 6, 7), SubSeq(value, 9, 10),
                  SubSeq(value, 12, 13), SubSeq(value, 15, 16), SubSeq(value, 18, 19))
      ELSE NoTime

\* datetime.strptime(value, "%Y%m%d_%H%M%S"), fields zero-padded
StrptimeCompact(value) ==
    IF /\ Len(value) = 15
       /\ value[9] = "_"
       /\ AllDigits(SubSeq(value, 1, 8)) /\ AllDigits(SubSeq(value, 10, 15))
      THEN MkTime(SubSeq(value, 1, 4), SubSeq(value, 5, 6), SubSeq(value, 7, 8),
                  SubSeq(value, 10, 11), SubSeq(value, 12, 13), SubSeq(value, 14, 15))
      ELSE NoTime

\* dt.strftime("%Y-%m-%d %H:%M:%S") (the C library's %Y does not pad the year)
Strftime(dt) ==
    Str(dt.year) \o <<"-">> \o Pad(dt.month, 2) \o <<"-">> \o Pad(dt.day, 2)
    \o <<" ">> \o Pad(dt.hour, 2) \o <<":">> \o Pad(dt.minute, 2)
    \o <<":">> \o Pad(dt.second, 2)

\* lines 148-162
normalize_time_str(value0) ==
    LET value == Strip(Or(value0, <<>>))
        dashed == StrptimeDated(value, "-")
        slashed == StrptimeDated(value, "/")
        compact == StrptimeCompact(value)
    IN  IF value = <<>> THEN <<>>
        ELSE IF dashed.ok THEN Strftime(dashed)
        ELSE IF slashed.ok THEN Strftime(slashed)
        ELSE IF compact.ok THEN Strftime(compact)
        ELSE value

\* The result None of parse_account_line
NoRecord == [ok |-> FALSE]
NA == <<"N", "/", "A">>

\* (a parser that read the legacy fields in the order of the pipe format)
parse_account_line_LegacyOrder(line) ==
    LET raw == Strip(Or(line, <<>>))
        bar == StripAll(Split(raw, <<"|">>, 3))
        dash == StripAll(Split(raw, <<"-", "-", "-", "-">>, 3))
    IN  IF raw = <<>> \/ StartsWith(raw, <<"#">>) THEN NoRecord
        ELSE IF Contains(raw, <<"|">>) THEN
            IF Len(bar) < 2 THEN NoRecord
            ELSE IF ~Contains(bar[1], <<"@">>) THEN NoRecord
            ELSE [ok |-> TRUE,
                  email |-> bar[1],
                  password |-> Or(bar[2], NA),
                  status |-> IF Len(bar) > 2 THEN bar[3] ELSE <<>>,
                  time |-> normalize_time_str(IF Len(bar) > 3 THEN bar[4] ELSE <<>>)]
        ELSE IF Contains(raw, <<"-", "-", "-", "-">>) THEN
            IF Len(dash) < 2 THEN NoRecord
            ELSE IF ~Contains(dash[1], <<"@">>) THEN NoRecord
            ELSE [ok |-> TRUE,
                  email |-> dash[1],
                  password |-> Or(dash[2], NA),
                  status |-> IF Len(dash) > 2 THEN dash[3] ELSE <<>>,
                  time |-> normalize_time_str(IF Len(dash) > 3 THEN dash[4] ELSE <<>>)]
        ELSE NoRecord

\* lines 164-205
parse_account_line(line) ==
    LET raw == Strip(Or(line, <<>>))
        bar == StripAll(Split(raw, <<"|">>, 3))
        dash == StripAll(Split(raw, <<"-", "-", "-", "-">>, 3))
    IN  IF raw = <<>> \/ StartsWith(raw, <<"#">>) THEN NoRecord
        ELSE IF Contains(raw, <<"|">>) THEN
            IF Len(bar) < 2 THEN NoRecord
            ELSE IF ~Contains(bar[1], <<"@">>) THEN NoRecord
            ELSE [ok |-> TRUE,
                  email |-> bar[1],
                  password |-> Or(bar[2], NA),
                  status |-> IF Len(bar) > 2 THEN bar[3] ELSE <<>>,
                  time |-> normalize_time_str(IF Len(bar) > 3 THEN bar[4] ELSE <<>>)]
        ELSE IF Contains(raw, <<"-", "-", "-", "-">>) THEN
            IF Len(dash) < 2 THEN NoRecord
            ELSE IF ~Contains(dash[1], <<"@">>) THEN NoRecord
            ELSE [ok |-> TRUE,
                  email |-> dash[1],
                  password |-> Or(dash[2], NA),
                  status |-> IF Len(dash) > 3 THEN dash[4] ELSE <<>>,
                  time |-> normalize_time_str(IF Len(dash) > 2 THEN dash[3] ELSE <<>>)]
        ELSE NoRecord

\* lines 207-211
format_account_line(line_email, line_password, line_status, line_time) ==
    LET safe_password == Or(Strip(Or(line_password, NA)), NA)
        safe_status == Strip(Or(line_status, <<>>))
        safe_time == IF Truthy(line_time) THEN normalize_time_str(line_time) ELSE <<>>
    IN  Strip(line_email) \o <<" ", "|", " ">> \o safe_password
        \o <<" ", "|", " ">> \o safe_status
        \o <<" ", "|", " ">> \o safe_time \o <<"\n">>

\* (a loop body that rewrote a matching line from the arguments alone, as
\* line 225 does for a new row)
normalize_line_DropsStored(line, email, password, status, current_date) ==
    LET parsed == parse_account_line(line)
    IN  IF ~parsed.ok THEN line
        ELSE IF parsed.email = email
          THEN format_account_line(email, Or(password, NA), status, current_date)
        ELSE format_account_line(parsed.email, parsed.password,
                                 parsed.status, parsed.time)

\* lines 227-247: one line of the loop over the lines read
normalize_line(line, email, password, status, current_date) ==
    LET parsed == parse_account_line(line)
    IN  IF ~parsed.ok THEN line
        ELSE IF parsed.email = email
          THEN format_account_line(email, Or(password, Or(parsed.password, NA)),
                                   status, current_date)
        ELSE format_account_line(parsed.email, parsed.password,
                                 parsed.status, parsed.time)

\* lines 223-250: normalized_lines
normalized_lines(lines, email, password, status, current_date) ==
    LET found == \E i \in 1..Len(lines) :
                    LET parsed == parse_account_line(lines[i])
                    IN  parsed.ok /\ parsed.email = email
        rewritten == [i \in 1..Len(lines) |->
                         normalize_line(lines[i], email, password, status, current_date)]
    IN  IF found THEN rewritten
        ELSE Append(rewritten,
                    format_account_line(email, Or(password, NA), status, current_date))

(***************************************************************************)
(* Sample ledger lines and texts, and sample arguments of save_to_txt.     *)
(***************************************************************************)
LinePipeA ==
    <<"a", "@", "x", " ", "|", " ", "p", " ", "|", " ", "s", " ", "|", " ", "2", "0", "2", "6", "-", "0", "1", "-", "0", "6", " ", "0", "9", ":", "4", "5", ":", "0", "0", "\n">>
LineLegacyA ==
    <<"a", "@", "x", "-", "-", "-", "-", "q", "-", "-", "-", "-", "2", "0", "2", "6", "0", "1", "0", "6", "_", "0", "9", "4", "5", "0", "0", "-", "-", "-", "-", "t", "\n">>
LinePipeB ==
    <<"b", "@", "x", " ", "|", " ", "q", " ", "|", " ", "t", " ", "|", " ", "2", "0", "2", "6", "/", "0", "1", "/", "0", "6", " ", "0", "9", ":", "4", "5", ":", "0", "0", "\n">>
LineComment ==
    <<"#", " ", "c", "\n">>
LineBlank ==
    <<"\n">>
LineJunk ==
    <<"z", "z", "\n">>
LineNoPassword ==
    <<"b", "@", "x", " ", "|", " ", " ", "|", " ", "s", "\n">>
LineCommentNoNewline ==
    <<"#", " ", "c">>
LineCommentCRLF ==
    <<"#", " ", "h", "\r", "\n">>

EmailA == <<"a", "@", "x">>
EmailB == <<"b", "@", "x">>
Emails == {EmailA, EmailB}
Passwords == {PyNone, <<"r">>}
Statuses == {<<"s">>, <<"t">>}
\* Arguments whose text holds a separator of the line formats or a padding
\* space, beside a plain password and a plain status
PasswordsDelimited == {<<"r">>, <<"r", "|", "q">>}
StatusesDelimited ==
    { <<"s">>,
      <<"s", "|", "u">>,
      <<" ", "s">>,
      <<"s", "-", "-", "-", "-", "u">> }

\* The ledger before the first call: no file, or one of these texts.
NoFile == <<"no file">>
InitialLedgers ==
    { NoFile,
      LinePipeA \o LinePipeB,
      LinePipeA \o LineLegacyA,
      LineComment \o LineBlank \o LineNoPassword \o LineJunk,
      LineLegacyA \o LineCommentNoNewline,
      LineCommentCRLF \o LinePipeB }

(***************************************************************************)
(* The file system: a directory of two paths over a store of inodes.  A    *)
(* reader that has opened a file keeps reading the inode it opened.        *)
(***************************************************************************)
\* lines 142-146, 213: file_path
LedgerPath == "accounts.txt"
\* line 253: tmp_path = file_path.with_suffix(file_path.suffix + ".tmp")
\* (a writer that opened file_path itself would write the ledger in place)
tmp_path_InPlace(file_path) == file_path
tmp_path(file_path) == file_path \o ".tmp"
PathNames == {LedgerPath, tmp_path(LedgerPath)}

\* An inode is in use while a path names it or a reader has it open; a new
\* file takes the first free one.
InodeIds == {1, 2, 3}
InUse(id) == (\E n \in PathNames : paths[n] = id) \/ rino = id
FreeInode == CHOOSE id \in InodeIds : ~InUse(id) /\ \A j \in InodeIds : ~InUse(j) => id <= j

Exists(path) == paths[path] # 0
Content(path) == inodes[paths[path]]
\* The ledger as a reader would find it: no file, or its text
LedgerText == IF Exists(LedgerPath) THEN Content(LedgerPath) ELSE NoFile

InitLedger ==
    /\ \E text \in InitialLedgers :
          /\ inodes = [id \in InodeIds |->
                          IF id = 1 /\ text # NoFile THEN text ELSE <<>>]
          /\ paths = [n \in PathNames |->
                         IF n = LedgerPath /\ text # NoFile THEN 1 ELSE 0]
          /\ committed = text
    /\ clock = 0 /\ ncalls = 0
    /\ spc = "idle" /\ sargs = <<>> /\ snorm = <<>> /\ swritten = 0
    /\ soutcome = "none" /\ sold = <<>>
    /\ rpc = "idle" /\ rino = 0 /\ rpos = 0 /\ rlines = <<>> /\ rsnap = <<>>

\* line 215: datetime.now().strftime("%Y-%m-%d %H:%M:%S"); the calls of one
\* writer are one second apart
NowStr(seconds) ==
    Strftime([ok |-> TRUE, year |-> 2026, month |-> 2, day |-> 1,
              hour |-> 0, minute |-> 0, second |-> seconds])

readerUnchanged == UNCHANGED <<rpc, rino, rpos, rlines, rsnap>>
writerUnchanged == UNCHANGED <<clock, ncalls, spc, sargs, snorm, swritten,
                               soutcome, sold, committed>>
notLedger ==
    UNCHANGED <<serverVars, logVars, loginVars, callVars, accountsVars,
                stripeVars, errorVars, lockVars,
                trialVars>>

\* lines 136-215: save_to_txt(email, password, status) is called; the parent
\* directory is made and the time is taken
SaveCall ==
    /\ spc = "idle"
    /\ ncalls < MaxSaves
    /\ ncalls' = ncalls + 1
    /\ clock' = clock + 1
    /\ \E email \in Emails, password \in Passwords, status \in Statuses :
          sargs' = [email |-> email, password |-> password, status |-> status,
                    current_date |-> NowStr(clock')]
    /\ spc' = "l218"
    /\ soutcome' = "none"
    /\ sold' = <<paths[LedgerPath], LedgerText>>
    /\ UNCHANGED <<inodes, paths, snorm, swritten, committed>>
    /\ readerUnchanged /\ notLedger

\* lines 218-250: read the lines of the file if it exists, and compute
\* normalized_lines
SaveRead ==
    /\ spc = "l218"
    /\ LET lines == IF Exists(LedgerPath)
                      THEN ReadLines(TextModeRead(Content(LedgerPath)))
                      ELSE <<>>
       IN  snorm' = normalized_lines(lines, sargs.email, sargs.password,
                                     sargs.status, sargs.current_date)
    /\ spc' = "l254"
    /\ UNCHANGED <<inodes, paths, clock, ncalls, sargs, swritten, soutcome,
                   sold, committed>>
    /\ readerUnchanged /\ notLedger

\* lines 253-254: tmp_path.open("w") creates the temp file, or truncates
\* the one a failed call has left
SaveOpenTmp ==
    /\ spc = "l254"
    /\ LET tmp == tmp_path(LedgerPath)
       IN  IF Exists(tmp)
             THEN /\ inodes' = [inodes EXCEPT ![paths[tmp]] = <<>>]
                  /\ UNCHANGED paths
             ELSE /\ inodes' = [inodes EXCEPT ![FreeInode] = <<>>]
                  /\ paths' = [paths EXCEPT ![tmp] = FreeInode]
    /\ swritten' = 0
    /\ spc' = "l255"
    /\ UNCHANGED <<clock, ncalls, sargs, snorm, soutcome, sold, committed>>
    /\ readerUnchanged /\ notLedger

\* line 255: f.writelines(normalized_lines), one line reaching the file
SaveWriteLine ==
    /\ spc = "l255"
    /\ swritten < Len(snorm)
    /\ inodes' = [inodes EXCEPT ![paths[tmp_path(LedgerPath)]] =
                     @ \o snorm[swritten + 1]]
    /\ swritten' = swritten + 1
    /\ UNCHANGED <<paths, clock, ncalls, spc, sargs, snorm, soutcome, sold,
                   committed>>
    /\ readerUnchanged /\ notLedger

\* lines 255-258: the file is closed and os.replace(tmp_path, file_path)
\* renames it over the ledger; the call returns
SaveReplace ==
    /\ spc = "l255"
    /\ swritten = Len(snorm)
    /\ LET tmp == tmp_path(LedgerPath)
           old == paths[LedgerPath]
       IN  /\ paths' = IF tmp = LedgerPath THEN paths
                       ELSE [paths EXCEPT ![LedgerPath] = paths[tmp], ![tmp] = 0]
           \* the file renamed over is freed unless a reader has it open
           /\ inodes' = IF tmp = LedgerPath \/ old = 0 \/ old = rino THEN inodes
                        ELSE [inodes EXCEPT ![old] = <<>>]
           /\ committed' = Join(snorm)
    /\ spc' = "idle"
    /\ soutcome' = "ok"
    /\ sargs' = <<>> /\ snorm' = <<>> /\ swritten' = 0 /\ sold' = <<>>
    /\ UNCHANGED <<clock, ncalls>>
    /\ readerUnchanged /\ notLedger

\* lines 260-261: any step of the call raises (mkdir, open, read, write,
\* replace); except Exception prints and the call returns
SaveFails ==
    /\ spc \in {"l218", "l254", "l255"}
    /\ spc' = "idle"
    /\ soutcome' = "caught"
    /\ sargs' = <<>> /\ snorm' = <<>> /\ swritten' = 0 /\ sold' = <<>>
    /\ UNCHANGED <<inodes, paths, clock, ncalls, committed>>
    /\ readerUnchanged /\ notLedger

\* src/server.py lines 273-276 (get_accounts) and 185-188 (get_status):
\* if os.path.exists(accounts_path): open it
ReaderOpen ==
    /\ rpc = "idle"
    /\ IF Exists(LedgerPath)
         THEN rpc' = "reading" /\ rino' = paths[LedgerPath]
         ELSE rpc' = "done" /\ rino' = 0
    /\ rpos' = 0 /\ rlines' = <<>>
    /\ rsnap' = IF committed = NoFile THEN NoFile ELSE TextModeRead(committed)
    /\ UNCHANGED <<inodes, paths>>
    /\ writerUnchanged /\ notLedger

\* src/server.py lines 277-280: for line in f
ReaderLine ==
    /\ rpc = "reading"
    /\ LET rest == SubSeq(inodes[rino], rpos + 1, Len(inodes[rino]))
       IN  IF rest = <<>>
             THEN rpc' = "done" /\ UNCHANGED <<rpos, rlines>>
             ELSE /\ rlines' = Append(rlines, TextModeRead(Head(ReadLines(rest))))
                  /\ rpos' = rpos + Len(Head(ReadLines(rest)))
                  /\ UNCHANGED rpc
    /\ UNCHANGED <<inodes, paths, rino, rsnap>>
    /\ writerUnchanged /\ notLedger

\* The handler answers and the file is closed
ReaderClose ==
    /\ rpc = "done"
    /\ rpc' = "idle" /\ rino' = 0 /\ rpos' = 0 /\ rlines' = <<>> /\ rsnap' = <<>>
    \* a file that no path names any more is freed when it is closed
    /\ inodes' = IF rino = 0 \/ \E n \in PathNames : paths[n] = rino THEN inodes
                 ELSE [inodes EXCEPT ![rino] = <<>>]
    /\ UNCHANGED paths
    /\ writerUnchanged /\ notLedger

NextLedger ==
    \/ SaveCall \/ SaveRead \/ SaveOpenTmp \/ SaveWriteLine \/ SaveReplace
    \/ SaveFails
    \/ ReaderOpen \/ ReaderLine \/ ReaderClose

\* lines 136-215: save_to_txt(email, password, status) is called with a
\* password and a status taken from the texts that may hold a separator
SaveCallDelimited ==
    /\ spc = "idle"
    /\ ncalls < MaxSaves
    /\ ncalls' = ncalls + 1
    /\ clock' = clock + 1
    /\ \E email \in Emails, password \in PasswordsDelimited,
          status \in StatusesDelimited :
          sargs' = [email |-> email, password |-> password, status |-> status,
                    current_date |-> NowStr(clock')]
    /\ spc' = "l218"
    /\ soutcome' = "none"
    /\ sold' = <<paths[LedgerPath], LedgerText>>
    /\ UNCHANGED <<inodes, paths, snorm, swritten, committed>>
    /\ readerUnchanged /\ notLedger

NextLedgerDelimited ==
    \/ SaveCallDelimited \/ SaveRead \/ SaveOpenTmp \/ SaveWriteLine
    \/ SaveReplace \/ SaveFails
    \/ ReaderOpen \/ ReaderLine \/ ReaderClose

(***************************************************************************)
(* src/browser.py, login(driver, email, password), lines 362-510.  The     *)
(* page decides what every lookup finds; lenv fixes its behaviour for one  *)
(* call.                                                                   *)
(***************************************************************************)
\* driver.current_url after the password has been submitted
UrlAuthPassword == <<"a", "u", "t", "h", ".", "o", "/", "p", "w">>
UrlAuthError == <<"o", "/", "a", "u", "t", "h", "/", "e">>
UrlChat == <<"c", "h", "a", "t", ".", "o", "/">>
Urls == {UrlAuthPassword, UrlAuthError, UrlChat}
AuthWord == <<"a", "u", "t", "h">>

PageBehaviours ==
    [ get_ok         : BOOLEAN,   \* driver.get returns (line 370)
      login_btn      : {"none", "clicked", "click_raises"},   \* lines 375-409
      email_found    : BOOLEAN,   \* the wait of line 414 succeeds
      continue_found : BOOLEAN,   \* find_element of line 424 succeeds
      switch         : {"none", "clicked", "raises"},         \* lines 430-468
      password_found : BOOLEAN,   \* the wait of line 472 succeeds
      submit_found   : BOOLEAN,   \* find_element of line 481 succeeds
      current_url    : Urls,      \* line 495
      err_found      : BOOLEAN ]  \* find_element of line 501 succeeds

InitLogin ==
    /\ lpc = "idle" /\ lenv \in PageBehaviours /\ lresult = "none"

notLogin ==
    UNCHANGED <<serverVars, logVars, ledgerVars, callVars, accountsVars,
                stripeVars, errorVars, lockVars,
                trialVars>>
LoginGoto(to) == lpc' = to /\ UNCHANGED <<lenv, lresult>> /\ notLogin
LoginReturns(value) ==
    lpc' = "done" /\ lresult' = value /\ UNCHANGED lenv /\ notLogin

\* lines 366-369: the call enters the outer try
LoginCall ==
    /\ lpc = "idle"
    /\ LoginGoto("l370")

\* lines 370-371: driver.get; an exception goes to the outer handler
LoginGet ==
    /\ lpc = "l370"
    /\ LoginGoto(IF lenv.get_ok THEN "l375" ELSE "l509")

\* lines 373-411: look for the Log in button and click it; the inner try
\* swallows every exception
LoginButton ==
    /\ lpc = "l375"
    /\ LoginGoto("l414")

\* lines 413-420: wait for the email field and type the email
LoginEmail ==
    /\ lpc = "l414"
    /\ LoginGoto(IF lenv.email_found THEN "l424" ELSE "l509")

\* lines 422-426: click continue
LoginContinue ==
    /\ lpc = "l424"
    /\ LoginGoto(IF lenv.continue_found THEN "l430" ELSE "l509")

\* lines 428-468: switch to password mode if a link offers it; the inner
\* try swallows every exception
LoginSwitch ==
    /\ lpc = "l430"
    /\ LoginGoto("l472")

\* lines 470-477: wait for the password field and type the password; a
\* timeout goes to the handler of line 488
LoginPassword ==
    /\ lpc = "l472"
    /\ LoginGoto(IF lenv.password_found THEN "l481" ELSE "l488")

\* lines 479-486: click the submit button and sleep
LoginSubmit ==
    /\ lpc = "l481"
    /\ LoginGoto(IF lenv.submit_found THEN "l495" ELSE "l488")

\* lines 488-492: except Exception as e: print ...; raise e -- raised inside
\* the outer try of line 369, so the handler of line 508 receives it
LoginReraise ==
    /\ lpc = "l488"
    /\ LoginGoto("l509")

\* lines 495-497: if "auth" not in driver.current_url: return True
LoginCheckUrl ==
    /\ lpc = "l495"
    /\ IF ~Contains(lenv.current_url, AuthWord)
         THEN LoginReturns("True")
         ELSE LoginGoto("l499")

\* lines 498-506: print a warning, look for an error element (any exception
\* is passed over), return True
LoginStillOnAuth ==
    /\ lpc = "l499"
    /\ LoginReturns("True")

\* lines 508-510: except Exception as e: print ...; return False
LoginCaught ==
    /\ lpc = "l509"
    /\ LoginReturns("False")

NextLogin ==
    \/ LoginCall \/ LoginGet \/ LoginButton \/ LoginEmail \/ LoginContinue
    \/ LoginSwitch \/ LoginPassword \/ LoginSubmit \/ LoginReraise
    \/ LoginCheckUrl \/ LoginStillOnAuth \/ LoginCaught

(***************************************************************************)
(* src/server.py, get_accounts: its own copies of the two ledger helpers.  *)
(***************************************************************************)
\* src/server.py lines 223-235: the same statements as lines 148-162 of
\* src/utils.py
server_normalize_time_str(value) == normalize_time_str(value)

\* src/server.py lines 237-270: as in src/utils.py, but the password is
\* parts[1] as it stands
server_parse_account_line(line) ==
    LET raw == Strip(Or(line, <<>>))
        bar == StripAll(Split(raw, <<"|">>, 3))
        dash == StripAll(Split(raw, <<"-", "-", "-", "-">>, 3))
    IN  IF raw = <<>> \/ StartsWith(raw, <<"#">>) THEN NoRecord
        ELSE IF Contains(raw, <<"|">>) THEN
            IF Len(bar) < 2 THEN NoRecord
            ELSE IF ~Contains(bar[1], <<"@">>) THEN NoRecord
            ELSE [ok |-> TRUE,
                  email |-> bar[1],
                  password |-> bar[2],
                  status |-> IF Len(bar) > 2 THEN bar[3] ELSE <<>>,
                  time |-> server_normalize_time_str(
                               IF Len(bar) > 3 THEN bar[4] ELSE <<>>)]
        ELSE IF Contains(raw, <<"-", "-", "-", "-">>) THEN
            IF Len(dash) < 2 THEN NoRecord
            ELSE IF ~Contains(dash[1], <<"@">>) THEN NoRecord
            ELSE [ok |-> TRUE,
                  email |-> dash[1],
                  password |-> dash[2],
                  status |-> IF Len(dash) > 3 THEN dash[4] ELSE <<>>,
                  time |-> server_normalize_time_str(
                               IF Len(dash) > 2 THEN dash[3] ELSE <<>>)]
        ELSE NoRecord

(***************************************************************************)
(* One record written as a ledger line in the pipe format and in the       *)
(* legacy format, and the two parsers applied to both lines.               *)
(***************************************************************************)
NoAtEmail == <<"a", "x">>
PaddedEmail == <<" ">> \o EmailA \o <<" ">>
FieldEmails == {EmailA, PaddedEmail, NoAtEmail}
FieldPasswords == {<<"r">>, <<>>, <<"r", "-", "1">>}
FieldStatuses == {<<"s">>, <<>>, <<"o", "k", " ", "2">>}
NoDate == [set |-> FALSE]
FieldDates ==
    { NoDate,
      [set |-> TRUE, year |-> 2026, month |-> 1, day |-> 6,
       hour |-> 9, minute |-> 45, second |-> 0],
      [set |-> TRUE, year |-> 2024, month |-> 2, day |-> 29,
       hour |-> 23, minute |-> 59, second |-> 59] }

\* A date as YYYY<sep>MM<sep>DD HH:MM:SS and as YYYYMMDD_HHMMSS
DatedText(dt, sep) ==
    IF ~dt.set THEN <<>>
    ELSE Pad(dt.year, 4) \o <<sep>> \o Pad(dt.month, 2) \o <<sep>> \o Pad(dt.day, 2)
         \o <<" ">> \o Pad(dt.hour, 2) \o <<":">> \o Pad(dt.minute, 2)
         \o <<":">> \o Pad(dt.second, 2)
CompactText(dt) ==
    IF ~dt.set THEN <<>>
    ELSE Pad(dt.year, 4) \o Pad(dt.month, 2) \o Pad(dt.day, 2) \o <<"_">>
         \o Pad(dt.hour, 2) \o Pad(dt.minute, 2) \o Pad(dt.second, 2)

\* email | password | status | time
PipeLine(f) ==
    f.email \o <<" ", "|", " ">> \o f.password \o <<" ", "|", " ">> \o f.status
        \o <<" ", "|", " ">> \o DatedText(f.date, f.sep) \o <<"\n">>
\* email----password----time----status
LegacyLine(f) ==
    f.email \o <<"-", "-", "-", "-">> \o f.password \o <<"-", "-", "-", "-">>
        \o CompactText(f.date) \o <<"-", "-", "-", "-">> \o f.status \o <<"\n">>

InitParse ==
    /\ fop = "none"
    /\ fin \in [email : FieldEmails, password : FieldPasswords,
                status : FieldStatuses, date : FieldDates, sep : {"-", "/"}]
    /\ fout = <<>>

notCall ==
    UNCHANGED <<serverVars, logVars, ledgerVars, loginVars, accountsVars,
                stripeVars, errorVars, lockVars,
                trialVars>>

\* src/utils.py lines 164-205 on both lines
ParseLines ==
    /\ fop = "none"
    /\ fop' = "utils.parse_account_line"
    /\ fout' = <<parse_account_line(PipeLine(fin)),
                 parse_account_line(LegacyLine(fin))>>
    /\ UNCHANGED fin /\ notCall

\* src/server.py lines 237-270 on both lines
ServerParseLines ==
    /\ fop = "none"
    /\ fop' = "server.parse_account_line"
    /\ fout' = <<server_parse_account_line(PipeLine(fin)),
                 server_parse_account_line(LegacyLine(fin))>>
    /\ UNCHANGED fin /\ notCall

NextParse == ParseLines \/ ServerParseLines

(***************************************************************************)
(* src/server.py, get_accounts(), lines 272-284: one request.              *)
(***************************************************************************)
\* str(e) of the exception open() or the read raises
ReadErrors == {"Permission denied", "Input/output error"}

\* The ledger the request finds: one of the initial ledgers, or one with a
\* single record, or with three
AccountsLedgers ==
    InitialLedgers \cup { LinePipeA,
                          LineLegacyA \o LinePipeB \o LinePipeA,
                          LineNoPassword \o LineComment }

InitAccounts ==
    /\ apc = "idle" /\ afile \in AccountsLedgers /\ apos = 0 /\ accounts = <<>>
    /\ aerr = "none" /\ aresp = <<>>

notAccounts ==
    UNCHANGED <<serverVars, logVars, ledgerVars, loginVars, callVars,
                stripeVars, errorVars, lockVars,
                trialVars>>

\* accounts[::-1]
Reversed(list) == [i \in 1..Len(list) |-> list[Len(list) + 1 - i]]

\* lines 272-274: accounts = []; if os.path.exists(accounts_path):
AccountsExists ==
    /\ apc = "idle"
    /\ apc' = IF afile # NoFile THEN "l276" ELSE "l284"
    /\ accounts' = <<>>
    /\ UNCHANGED <<afile, apos, aerr, aresp>> /\ notAccounts

\* lines 275-276: open(accounts_path, 'r', ...) returns, or raises
AccountsOpen ==
    /\ apc = "l276"
    /\ \/ apc' = "l277" /\ UNCHANGED aerr
       \/ \E e \in ReadErrors : apc' = "l282" /\ aerr' = e
    /\ apos' = 0
    /\ UNCHANGED <<afile, accounts, aresp>> /\ notAccounts

\* lines 277-280: for line in f: the next line is parsed and, if a record,
\* appended; or the read raises; after the last line the file is closed
AccountsLine ==
    /\ apc = "l277"
    /\ LET lines == ReadLines(TextModeRead(afile))
       IN  \/ /\ apos < Len(lines)
              /\ LET parsed == server_parse_account_line(lines[apos + 1])
                 IN  accounts' = IF parsed.ok THEN Append(accounts, parsed)
                                              ELSE accounts
              /\ apos' = apos + 1
              /\ UNCHANGED <<apc, aerr>>
           \/ /\ apos = Len(lines)
              /\ apc' = "l284"
              /\ UNCHANGED <<apos, accounts, aerr>>
           \/ /\ apos < Len(lines)
              /\ \E e \in ReadErrors : apc' = "l282" /\ aerr' = e
              /\ UNCHANGED <<apos, accounts>>
    /\ UNCHANGED <<afile, aresp>> /\ notAccounts

\* (a handler that returned the error body without a status)
AccountsError_NoStatus ==
    /\ apc = "l282"
    /\ aresp' = <<200, [error |-> aerr]>>
    /\ apc' = "done"
    /\ UNCHANGED <<afile, apos, accounts, aerr>> /\ notAccounts

\* lines 281-282: except Exception as e: return jsonify({"error": str(e)}), 500
AccountsError ==
    /\ apc = "l282"
    /\ aresp' = <<500, [error |-> aerr]>>
    /\ apc' = "done"
    /\ UNCHANGED <<afile, apos, accounts, aerr>> /\ notAccounts

\* line 284: return jsonify(accounts[::-1])
AccountsReturn ==
    /\ apc = "l284"
    /\ aresp' = <<200, Reversed(accounts)>>
    /\ apc' = "done"
    /\ UNCHANGED <<afile, apos, accounts, aerr>> /\ notAccounts

NextAccounts ==
    AccountsExists \/ AccountsOpen \/ AccountsLine \/ AccountsError
    \/ AccountsReturn

(***************************************************************************)
(* src/browser.py: handle_stripe_input.  A document is named by the path   *)
(* of iframes that leads to it from the top-level document <<>>.           *)
(***************************************************************************)
Frames == {<<1>>, <<2>>, <<1, 1>>, <<1, 2>>, <<1, 1, 1>>}
Documents == {<<>>} \cup Frames

max_depth == 2

\* driver.switch_to.parent_frame(): the top-level document is its own parent
parent_frame(doc) ==
    IF doc = <<>> THEN <<>> ELSE SubSeq(doc, 1, Len(doc) - 1)

\* driver.switch_to.default_content()
default_content_Stays(doc) == doc
default_content(doc) == <<>>

\* driver.find_elements(By.TAG_NAME, "iframe") in the document doc
find_iframes(doc) ==
    [k \in 1..Cardinality({f \in Frames : f # <<>> /\ parent_frame(f) = doc})
        |-> Append(doc, k)]

\* an element can be used only while the driver is in its document
Usable(frame) == parent_frame(frame) = dctx

\* line 656: selectors = [s.strip() for s in input_selectors.split(',')];
\* the call sites (lines 1065-1079) pass several
selectors == <<"cardnumber", "cc-number">>

\* lines 659-673: try_fill() in the document doc: find_element with each
\* selector in turn, until one finds a displayed element and the value is
\* typed; a selector that finds nothing, or whose element is hidden or
\* cannot be typed into, is passed over
\* (a try_fill that gave up after the first selector)
try_fill_FirstOnly(doc) ==
    [found |-> <<doc, 1>> \in dfill,
     calls |-> <<<<doc, 1>>>>]
try_fill(doc) ==
    LET hits == {k \in 1..Len(selectors) : <<doc, k>> \in dfill}
        last == IF hits = {} THEN Len(selectors)
                ELSE CHOOSE k \in hits : \A h \in hits : k <= h
    IN  [found |-> hits # {},
         calls |-> [k \in 1..last |-> <<doc, k>>]]

InitStripe ==
    /\ dpc = "idle" /\ dctx = <<>> /\ dcalled = <<>> /\ dstack = <<>>
    /\ dret = FALSE /\ dresult = "none" /\ draised = {}
    /\ dfill \in {{}} \cup {{<<doc, k>>} : doc \in Documents,
                                           k \in 1..Len(selectors)}
    /\ dshown \in SUBSET Frames
    /\ dtried = <<>>

notStripe ==
    UNCHANGED <<serverVars, logVars, ledgerVars, loginVars, callVars,
                accountsVars, errorVars, lockVars,
                trialVars>>

DTop == dstack[Len(dstack)]
DFrame == DTop.frames[DTop.i]
DPop == SubSeq(dstack, 1, Len(dstack) - 1)
DAdvance == [dstack EXCEPT ![Len(dstack)].i = @ + 1]

\* line 651: the call, made in the top-level document (lines 1065-1079)
StripeCall ==
    /\ dpc = "idle"
    /\ dpc' = "l676" /\ dcalled' = dctx
    /\ UNCHANGED <<dctx, dstack, dret, dresult, draised, dfill, dshown, dtried>>
    /\ notStripe

\* lines 676-678, 717-718: try_fill in the current document
StripeTryMain ==
    /\ dpc = "l676"
    /\ dtried' = dtried \o try_fill(dctx).calls
    /\ IF try_fill(dctx).found
       THEN /\ dpc' = "done" /\ dresult' = "True"
            /\ UNCHANGED dctx
       ELSE /\ dctx' = default_content(dctx)
            /\ dpc' = "l682" /\ UNCHANGED dresult
    /\ UNCHANGED <<dcalled, dstack, dret, draised, dfill, dshown>>
    /\ notStripe

\* lines 682-686: traverse_frames is entered with depth = Len(dstack);
\* find_elements may raise
TraverseEnter ==
    /\ dpc = "l682"
    /\ IF Len(dstack) >= max_depth
       THEN /\ dpc' = "ret" /\ dret' = FALSE
            /\ UNCHANGED <<dstack, draised>>
       ELSE \/ /\ dstack' = Append(dstack,
                                   [frames |-> find_iframes(dctx), i |-> 1])
               /\ dpc' = "l688" /\ UNCHANGED dret
               /\ UNCHANGED draised
            \/ /\ dpc' = "raise" /\ draised' = draised \cup {"l686"}
               /\ UNCHANGED <<dstack, dret>>
    /\ UNCHANGED <<dctx, dcalled, dresult, dfill, dshown, dtried>> /\ notStripe

\* lines 688, 715: the next frame, or return False after the last
TraverseLoop ==
    /\ dpc = "l688"
    /\ IF DTop.i > Len(DTop.frames)
       THEN /\ dstack' = DPop /\ dret' = FALSE /\ dpc' = "ret"
       ELSE /\ dpc' = "l691" /\ UNCHANGED <<dstack, dret>>
    /\ UNCHANGED <<dctx, dcalled, dresult, draised, dfill, dshown, dtried>> /\ notStripe

\* lines 691-692: frame.is_displayed()
TraverseIsDisplayed ==
    /\ dpc = "l691"
    /\ \/ /\ Usable(DFrame) /\ DFrame \in dshown
          /\ dpc' = "l694" /\ UNCHANGED <<dstack, draised>>
       \/ /\ Usable(DFrame) /\ DFrame \notin dshown
          /\ dpc' = "l688" /\ dstack' = DAdvance /\ UNCHANGED draised
       \/ /\ dpc' = "l711" /\ draised' = draised \cup {"l691"}
          /\ UNCHANGED dstack
    /\ UNCHANGED <<dctx, dcalled, dret, dresult, dfill, dshown, dtried>> /\ notStripe

\* line 694: driver.switch_to.frame(frame)
TraverseSwitch ==
    /\ dpc = "l694"
    /\ \/ /\ Usable(DFrame)
          /\ dctx' = DFrame /\ dpc' = "l697" /\ UNCHANGED draised
       \/ /\ dpc' = "l711" /\ draised' = draised \cup {"l694"}
          /\ UNCHANGED dctx
    /\ UNCHANGED <<dcalled, dstack, dret, dresult, dfill, dshown, dtried>>
    /\ notStripe

\* lines 697-700: the field is filled in this frame
TraverseFilled ==
    /\ dpc = "l697" /\ try_fill(dctx).found
    /\ dtried' = dtried \o try_fill(dctx).calls
    /\ dctx' = default_content(dctx)
    /\ dstack' = DPop /\ dret' = TRUE /\ dpc' = "ret"
    /\ UNCHANGED <<dcalled, dresult, draised, dfill, dshown>> /\ notStripe

\* lines 697, 703: it is not; the frames of this frame are searched
TraverseDeeper ==
    /\ dpc = "l697" /\ ~try_fill(dctx).found
    /\ dtried' = dtried \o try_fill(dctx).calls
    /\ dpc' = "l682"
    /\ UNCHANGED <<dctx, dcalled, dstack, dret, dresult, draised, dfill,
                   dshown>>
    /\ notStripe

\* lines 703-707: the search of the frames of this frame has returned
TraverseBack ==
    /\ dpc = "ret" /\ dstack # <<>>
    /\ IF dret
       THEN /\ dstack' = DPop /\ UNCHANGED <<dctx, dpc>>
       ELSE /\ dctx' = parent_frame(dctx)
            /\ dstack' = DAdvance /\ dpc' = "l688"
    /\ UNCHANGED <<dcalled, dret, dresult, draised, dfill, dshown, dtried>> /\ notStripe

\* lines 709-713: an exception of this iteration, or of the search below it
TraverseExcept ==
    /\ \/ dpc = "l711"
       \/ dpc = "raise" /\ dstack # <<>>
    /\ dctx' = parent_frame(dctx)
    /\ dstack' = DAdvance /\ dpc' = "l688"
    /\ UNCHANGED <<dcalled, dret, dresult, draised, dfill, dshown, dtried>> /\ notStripe

\* lines 718-722: traverse_frames(driver) has returned
StripeReturn ==
    /\ dpc = "ret" /\ dstack = <<>>
    /\ UNCHANGED draised
    /\ dresult' = IF dret THEN "True" ELSE "False"
    /\ dpc' = "done"
    /\ UNCHANGED <<dctx, dcalled, dstack, dret, dfill, dshown, dtried>> /\ notStripe

\* line 686 at depth 0: the exception leaves handle_stripe_input
StripeRaise ==
    /\ dpc = "raise" /\ dstack = <<>>
    /\ UNCHANGED draised
    /\ dresult' = "raised" /\ dpc' = "done"
    /\ UNCHANGED <<dctx, dcalled, dstack, dret, dfill, dshown, dtried>> /\ notStripe

NextStripe ==
    \/ StripeCall \/ StripeTryMain \/ TraverseEnter \/ TraverseLoop
    \/ TraverseIsDisplayed \/ TraverseSwitch \/ TraverseFilled
    \/ TraverseDeeper \/ TraverseBack \/ TraverseExcept \/ StripeReturn
    \/ StripeRaise

(***************************************************************************)
(* src/utils.py: generate_random_birthday.                                 *)
(***************************************************************************)
\* config.MIN_AGE, config.MAX_AGE
MIN_AGE == 18
MAX_AGE == 65

\* str.zfill(width)
RECURSIVE Zfill(_, _)
Zfill(str, width) ==
    IF Len(str) >= width THEN str ELSE Zfill(<<"0">> \o str, width)

\* datetime.now() of the calls: ordinary days, the last and the first day of
\* a year, a 29 February, and a day from which the year 2100 is in range
Todays ==
    { [year |-> 2026, month |-> 11, day |-> 5],
      [year |-> 2026, month |-> 12, day |-> 31],
      [year |-> 2027, month |-> 1, day |-> 1],
      [year |-> 2024, month |-> 2, day |-> 29],
      [year |-> 2118, month |-> 6, day |-> 15] }

\* The age on the day `today` of someone born on `birth`: the birthdays they
\* have had
Age(birth, today) ==
    IF birth.month < today.month
       \/ (birth.month = today.month /\ birth.day <= today.day)
    THEN today.year - birth.year
    ELSE today.year - birth.year - 1

\* Faker's date_of_birth(minimum_age, maximum_age): a date on which someone
\* of an age in that range today was born
date_of_birth(today, minimum_age, maximum_age) ==
    { birth \in [year : (today.year - maximum_age - 1)..(today.year - minimum_age),
                 month : 1..12, day : 1..31] :
        /\ birth.day <= DaysIn(birth.year, birth.month)
        /\ Age(birth, today) \in minimum_age..maximum_age }

\* lines 349-351, 372-374
BirthdayStrings(year, month, day) ==
    <<Str(year), Zfill(Str(month), 2), Zfill(Str(day), 2)>>

InitBirthday ==
    /\ fop = "none"
    /\ fin \in [today : Todays, FAKER_AVAILABLE : BOOLEAN]
    /\ fout = <<>>

\* lines 346-351: the Faker path
BirthdayFaker ==
    /\ fop = "none" /\ fin.FAKER_AVAILABLE
    /\ \E birthday \in date_of_birth(fin.today, MIN_AGE, MAX_AGE) :
          fout' = BirthdayStrings(birthday.year, birthday.month, birthday.day)
    /\ fop' = "generate_random_birthday"
    /\ UNCHANGED fin /\ notCall

\* lines 362-370: max_day of the month drawn
\* (a rule that took every fourth year for a leap year)
max_day_EveryFourth(birth_year, birth_month) ==
    IF birth_month \in {1, 3, 5, 7, 8, 10, 12} THEN 31
    ELSE IF birth_month \in {4, 6, 9, 11} THEN 30
    ELSE IF birth_year % 4 = 0 THEN 29 ELSE 28
max_day(birth_year, birth_month) ==
    IF birth_month \in {1, 3, 5, 7, 8, 10, 12} THEN 31
    ELSE IF birth_month \in {4, 6, 9, 11} THEN 30
    ELSE IF (birth_year % 4 = 0 /\ birth_year % 100 # 0)
            \/ birth_year % 400 = 0
         THEN 29 ELSE 28

\* lines 352-374: the fallback path
BirthdayFallback ==
    /\ fop = "none" /\ ~fin.FAKER_AVAILABLE
    /\ LET today == fin.today
           min_birth_year == today.year - MAX_AGE
           max_birth_year == today.year - MIN_AGE
       IN  \E birth_year \in min_birth_year..max_birth_year,
              birth_month \in 1..12 :
             \E birth_day \in 1..max_day(birth_year, birth_month) :
                fout' = BirthdayStrings(birth_year, birth_month, birth_day)
    /\ fop' = "generate_random_birthday"
    /\ UNCHANGED fin /\ notCall

NextBirthday == BirthdayFaker \/ BirthdayFallback

(***************************************************************************)
(* src/utils.py: generate_random_password.                                 *)
(***************************************************************************)
ascii_uppercase ==
    { "A", "B", "C", "D", "E", "F", "G", "H", "I", "J", "K", "L",
    "M", "N", "O", "P", "Q", "R", "S", "T", "U", "V", "W", "X",
    "Y", "Z" }
ascii_lowercase ==
    { "a", "b", "c", "d", "e", "f", "g", "h", "i", "j", "k", "l",
    "m", "n", "o", "p", "q", "r", "s", "t", "u", "v", "w", "x",
    "y", "z" }
digits == { Digits[i] : i \in 1..10 }
SpecialChars == { "!", "@", "#", "$", "%" }

\* config.PASSWORD_CHARS: the configured character set
PASSWORD_CHARS ==
    ascii_uppercase \cup ascii_lowercase \cup digits \cup SpecialChars

\* The argument length of the calls
Lengths == {3, 12}

\* Outcomes of line 121, the draw of `length` characters: one character all
\* along (a draw without three of the four classes), and a draw whose first
\* four characters are of one class each, in another order
DrawChars == {c \in PASSWORD_CHARS : c \in {"a", "Z", "7", "#"}}
MixedDraw(length) ==
    [i \in 1..length |-> <<"#", "7", "q", "Z">>[((i - 1) % 4) + 1]]
Draws(length) ==
    {[i \in 1..length |-> c] : c \in DrawChars} \cup {MixedDraw(length)}

\* lines 124-130, with the four characters random.choice gives
generate_random_password_ThreeClasses(password, upper, lower, digit, special) ==
    <<upper, lower, digit>> \o SubSeq(password, 4, Len(password))
generate_random_password(password, upper, lower, digit, special) ==
    <<upper, lower, digit, special>> \o SubSeq(password, 5, Len(password))

InitPassword ==
    /\ fop = "none"
    /\ \E length \in Lengths :
          fin \in [length : {length}, password : Draws(length)]
    /\ fout = <<>>

\* lines 106-133
GeneratePassword ==
    /\ fop = "none"
    /\ \E upper \in ascii_uppercase, lower \in ascii_lowercase,
          digit \in digits, special \in SpecialChars :
          fout' = generate_random_password(fin.password, upper, lower, digit,
                                           special)
    /\ fop' = "generate_random_password"
    /\ UNCHANGED fin /\ notCall

NextPassword == GeneratePassword

(***************************************************************************)
(* src/utils.py: generate_billing_info and the two address generators.     *)
(***************************************************************************)
LowerLetters ==
    <<"a", "b", "c", "d", "e", "f", "g", "h", "i", "j", "k", "l", "m",
      "n", "o", "p", "q", "r", "s", "t", "u", "v", "w", "x", "y", "z">>
UpperLetters ==
    <<"A", "B", "C", "D", "E", "F", "G", "H", "I", "J", "K", "L", "M",
      "N", "O", "P", "Q", "R", "S", "T", "U", "V", "W", "X", "Y", "Z">>

\* str.upper() on ASCII text
PyUpper(str) ==
    [i \in 1..Len(str) |->
        IF \E k \in 1..26 : LowerLetters[k] = str[i]
        THEN UpperLetters[CHOOSE k \in 1..26 : LowerLetters[k] = str[i]]
        ELSE str[i]]

\* The country codes of the calls
Countries ==
    { <<"U", "S">>, <<"u", "s">>, <<"U", "s">>, <<"J", "P">>, <<"j", "p">>,
      <<"U", "K">>, <<"U", "S", "A">>, <<>> }

\* The outcomes of random.randint(a, b) that are followed: both ends
randint(a, b) == {a, b}

\* generate_random_name(), lines 305-332: some "FirstName LastName"
RandomNames == {"John Smith", "Mary Jones"}

tokyo_wards ==
    { [ward |-> "Chiyoda-ku", zip_prefix |-> "100"],
      [ward |-> "Shibuya-ku", zip_prefix |-> "150"],
      [ward |-> "Shinjuku-ku", zip_prefix |-> "160"],
      [ward |-> "Minato-ku", zip_prefix |-> "105"],
      [ward |-> "Meguro-ku", zip_prefix |-> "153"],
      [ward |-> "Setagaya-ku", zip_prefix |-> "154"],
      [ward |-> "Nakano-ku", zip_prefix |-> "164"],
      [ward |-> "Toshima-ku", zip_prefix |-> "170"] }
osaka_areas ==
    { [area |-> "Kita-ku", zip_prefix |-> "530"],
      [area |-> "Chuo-ku", zip_prefix |-> "540"],
      [area |-> "Nishi-ku", zip_prefix |-> "550"],
      [area |-> "Tennoji-ku", zip_prefix |-> "543"] }
japan_fallback_addresses ==
    { [zip |-> <<"100-0005">>, state |-> "Tokyo", city |-> "Chiyoda-ku",
       address1 |-> <<"1-1 Marunouchi">>],
      [zip |-> <<"160-0022">>, state |-> "Tokyo", city |-> "Shinjuku-ku",
       address1 |-> <<"3-14-1 Shinjuku">>],
      [zip |-> <<"150-0002">>, state |-> "Tokyo", city |-> "Shibuya-ku",
       address1 |-> <<"2-21-1 Shibuya">>],
      [zip |-> <<"530-0001">>, state |-> "Osaka", city |-> "Osaka-shi",
       address1 |-> <<"1-1 Umeda">>] }
us_states ==
    { [name |-> "Delaware", code |-> "DE",
       cities |-> {"Wilmington", "Dover", "Newark"}],
      [name |-> "Oregon", code |-> "OR",
       cities |-> {"Portland", "Salem", "Eugene"}],
      [name |-> "Montana", code |-> "MT",
       cities |-> {"Billings", "Missoula", "Helena"}],
      [name |-> "New Hampshire", code |-> "NH",
       cities |-> {"Manchester", "Nashua", "Concord"}] }
street_names ==
    { "Main St", "Oak Ave", "Maple Dr", "Cedar Ln", "Park Blvd",
      "Washington St", "Lincoln Ave", "Jefferson Dr", "Madison Ln" }

\* generate_japan_address(), lines 406-464: the addresses it can return.  A
\* formatted text is the sequence of the pieces its f-string joins.
generate_japan_address(FAKER_AVAILABLE) ==
    IF FAKER_AVAILABLE
    THEN { [zip |-> <<w.zip_prefix, "-", n>>, state |-> "Tokyo",
            city |-> w.ward, address1 |-> <<a, "-", b, "-", c>>] :
             w \in tokyo_wards, n \in randint(1000, 9999),
             a \in randint(1, 9), b \in randint(1, 30), c \in randint(1, 20) }
         \cup
         { [zip |-> <<w.zip_prefix, "-", n>>, state |-> "Osaka",
            city |-> w.area, address1 |-> <<a, "-", b, "-", c>>] :
             w \in osaka_areas, n \in randint(1000, 9999),
             a \in randint(1, 9), b \in randint(1, 30), c \in randint(1, 20) }
    ELSE { [addr EXCEPT !.address1 = @ \o <<" ", a, "-", b>>] :
             addr \in japan_fallback_addresses,
             a \in randint(1, 9), b \in randint(1, 20) }

\* generate_us_address(), lines 467-509
generate_us_address(FAKER_AVAILABLE) ==
    IF FAKER_AVAILABLE
    THEN UNION { { [zip |-> <<state_info.code, n>>,
                    state |-> state_info.name, city |-> city,
                    address1 |-> <<street_number, " ", street>>] :
                     city \in state_info.cities,
                     n \in randint(10000, 99999),
                     street_number \in randint(100, 9999),
                     street \in street_names } :
                 state_info \in us_states }
    ELSE { [zip |-> <<"10001">>, state |-> "New York", city |-> "New York",
            address1 |-> <<n, " Main St">>] : n \in randint(100, 999) }

\* line 527: country.upper() == "US"
IsUS_CaseSensitive(country) == country = <<"U", "S">>
IsUS(country) == PyUpper(country) = <<"U", "S">>

\* lines 512-545
generate_billing_info(country, FAKER_AVAILABLE) ==
    { [name |-> name, zip |-> address.zip, state |-> address.state,
       city |-> address.city, address1 |-> address.address1,
       country |-> PyUpper(country)] :
        name \in RandomNames,
        address \in IF IsUS(country)
                    THEN generate_us_address(FAKER_AVAILABLE)
                    ELSE generate_japan_address(FAKER_AVAILABLE) }

InitBilling ==
    /\ fop = "none"
    /\ fin \in [country : Countries, FAKER_AVAILABLE : BOOLEAN]
    /\ fout = <<>>

\* one call generate_billing_info(country)
BillingCall ==
    /\ fop = "none"
    /\ fout' \in generate_billing_info(fin.country, fin.FAKER_AVAILABLE)
    /\ fop' = "generate_billing_info"
    /\ UNCHANGED fin /\ notCall

NextBilling == BillingCall

(***************************************************************************)
(* src/utils.py: extract_verification_code.  A character outside ASCII is  *)
(* written as its code point: "u4EE3", "u7801", "u4E3A" are the three      *)
(* characters of the Chinese phrase of the first pattern.                  *)
(***************************************************************************)
\* re.IGNORECASE on ASCII letters
Lowered(c) ==
    IF \E k \in 1..26 : UpperLetters[k] = c
    THEN LowerLetters[CHOOSE k \in 1..26 : UpperLetters[k] = c]
    ELSE c

\* lines 288-293: each pattern is a literal, then any number of characters of
\* a class ("\s*" or "[:\s]*"), then the group (\d{6})
patterns_BareDigitsFirst ==
    << [literal |-> <<>>, skip |-> {}],
       [literal |-> <<"u4EE3", "u7801", "u4E3A">>, skip |-> {" ", "\n", "\t", "\r"}],
       [literal |-> <<"c", "o", "d", "e", " ", "i", "s">>,
        skip |-> {" ", "\n", "\t", "\r"}],
       [literal |-> <<"v", "e", "r", "i", "f", "i", "c", "a", "t", "i", "o", "n",
           " ", "c", "o", "d", "e">>, skip |-> {":", " ", "\n", "\t", "\r"}] >>
patterns ==
    << [literal |-> <<"u4EE3", "u7801", "u4E3A">>, skip |-> {" ", "\n", "\t", "\r"}],
       [literal |-> <<"c", "o", "d", "e", " ", "i", "s">>,
        skip |-> {" ", "\n", "\t", "\r"}],
       [literal |-> <<"v", "e", "r", "i", "f", "i", "c", "a", "t", "i", "o", "n",
           " ", "c", "o", "d", "e">>, skip |-> {":", " ", "\n", "\t", "\r"}],
       [literal |-> <<>>, skip |-> {}] >>

\* The literal of the pattern matches at position i, whatever the case
LiteralAt(content, i, literal) ==
    /\ i + Len(literal) - 1 <= Len(content)
    /\ \A k \in 1..Len(literal) : Lowered(content[i + k - 1]) = literal[k]

\* The position after the longest run of characters of `skip` from position j
RECURSIVE SkipFrom(_, _, _)
SkipFrom(content, j, skip) ==
    IF j <= Len(content) /\ content[j] \in skip
    THEN SkipFrom(content, j + 1, skip) ELSE j

\* Where the group of a match of the pattern that starts at i begins, 0 when
\* the pattern does not match at i
GroupAt(content, i, pattern) ==
    IF ~LiteralAt(content, i, pattern.literal) THEN 0
    ELSE LET j == SkipFrom(content, i + Len(pattern.literal), pattern.skip)
         IN  IF j + 5 <= Len(content)
                /\ \A k \in j..(j + 5) : IsDigit(content[k])
             THEN j ELSE 0

\* re.findall(pattern, content, re.IGNORECASE)[0], or PyNone when the list is
\* empty
FirstMatch(content, pattern) ==
    LET starts == {i \in 1..Len(content) : GroupAt(content, i, pattern) # 0}
    IN  IF starts = {} THEN PyNone
        ELSE LET i == CHOOSE s \in starts : \A t \in starts : s <= t
                 j == GroupAt(content, i, pattern)
             IN  SubSeq(content, j, j + 5)

\* lines 275-303
extract_verification_code(content) ==
    IF content = <<>> THEN PyNone
    ELSE LET hits == {p \in 1..Len(patterns) :
                         FirstMatch(content, patterns[p]) # PyNone}
         IN  IF hits = {} THEN PyNone
             ELSE FirstMatch(content,
                             patterns[CHOOSE p \in hits : \A q \in hits : p <= q])

\* Pieces of mail text: the pattern of highest priority that matches in the
\* piece (0: none) and the code that pattern finds there
MailPieces ==
    {
      [text |-> <<"y", "o", "u", "r", " ", "c", "o", "d", "e", " ", "i", "s",
           " ", "1", "2", "3", "4", "5", "6">>,
       pattern |-> 2, code |-> <<"1", "2", "3", "4", "5", "6">>],
      [text |-> <<"C", "o", "d", "e", " ", "I", "S", "\n", " ", "6", "5",
           "4", "3", "2", "1">>,
       pattern |-> 2, code |-> <<"6", "5", "4", "3", "2", "1">>],
      [text |-> <<"u4EE3", "u7801", "u4E3A", " ", "3", "3", "3", "3", "3",
           "3">>,
       pattern |-> 1, code |-> <<"3", "3", "3", "3", "3", "3">>],
      [text |-> <<"V", "e", "r", "i", "f", "i", "c", "a", "t", "i", "o", "n",
           " ", "c", "o", "d", "e", ":", ":", " ", "2", "2", "2", "2",
           "2", "2">>,
       pattern |-> 3, code |-> <<"2", "2", "2", "2", "2", "2">>],
      [text |-> <<"r", "e", "f", " ", "9", "8", "7", "6", "5", "4", "3">>,
       pattern |-> 4, code |-> <<"9", "8", "7", "6", "5", "4">>],
      [text |-> <<"n", "o", " ", "c", "o", "d", "e", " ", "h", "e", "r", "e">>,
       pattern |-> 0, code |-> <<>>],
      [text |-> <<"c", "o", "d", "e", " ", "i", "s", " ", "1", "2", "3", "4",
           "5">>,
       pattern |-> 0, code |-> <<>>],
      [text |-> <<"u4EE3", "u7801", "u4E3A", ":", " ", "4", "4", "4", "4",
           "4", "4">>,
       pattern |-> 4, code |-> <<"4", "4", "4", "4", "4", "4">>]
    }

MaxPieces == 3

\* The mail: the pieces, each followed by "; "
RECURSIVE MailText(_)
MailText(pieces) ==
    IF pieces = <<>> THEN <<>>
    ELSE Head(pieces).text \o <<";", " ">> \o MailText(Tail(pieces))

InitExtract ==
    /\ fop = "none"
    /\ \E n \in 0..MaxPieces : fin \in [1..n -> MailPieces]
    /\ fout = <<>>

\* one call extract_verification_code(content)
ExtractCall ==
    /\ fop = "none"
    /\ fout' = extract_verification_code(MailText(fin))
    /\ fop' = "extract_verification_code"
    /\ UNCHANGED fin /\ notCall

NextExtract == ExtractCall

(***************************************************************************)
(* src/browser.py: check_and_handle_error, called by the loop              *)
(* `while check_and_handle_error(driver): time.sleep(2)` of                *)
(* fill_signup_form (line 351) and enter_verification_code (lines 528,     *)
(* 551).  What the page shows is free at every read.                       *)
(***************************************************************************)
MaxRetries == 4

InitError ==
    /\ epc = "idle" /\ emax \in 0..MaxRetries /\ eattempt = 0 /\ escans = 0
    /\ eclicked = FALSE /\ ekeyword = "none" /\ eresult = "none"

notError ==
    UNCHANGED <<serverVars, logVars, ledgerVars, loginVars, callVars,
                accountsVars, stripeVars, lockVars, trialVars>>

\* lines 351-352, 149-150: the loop calls check_and_handle_error(driver), the
\* first time or after time.sleep(2)
DrainCall ==
    /\ epc \in {"idle", "l352"}
    /\ epc' = "l152" /\ eattempt' = 0 /\ escans' = 0 /\ eclicked' = FALSE
    /\ ekeyword' = "none" /\ eresult' = "none"
    /\ UNCHANGED emax /\ notError

\* lines 152, 176: for attempt in range(max_retries)
ErrorLoop ==
    /\ epc = "l152"
    /\ IF eattempt < emax
       THEN epc' = "l154" /\ UNCHANGED eresult
       ELSE epc' = "ret" /\ eresult' = "False"
    /\ UNCHANGED <<emax, eattempt, escans, eclicked, ekeyword>> /\ notError

\* lines 154-156, 170-174: the page is read; no keyword, or the read raises
ErrorScan ==
    /\ epc = "l154"
    /\ escans' = escans + 1
    /\ \/ ekeyword' = "yes" /\ epc' = "l160" /\ UNCHANGED eresult
       \/ ekeyword' = "no" /\ epc' = "ret" /\ eresult' = "False"
       \/ ekeyword' = "raised" /\ epc' = "ret" /\ eresult' = "False"
    /\ UNCHANGED <<emax, eattempt, eclicked>> /\ notError

\* line 160: find_element of the "Try again" control
ErrorFind ==
    /\ epc = "l160"
    /\ epc' \in {"l162", "l167"}
    /\ UNCHANGED <<emax, eattempt, escans, eclicked, ekeyword, eresult>>
    /\ notError

\* lines 161-166: the click, the wait and `return True`; or the click raises
ErrorClick ==
    /\ epc = "l162"
    /\ \/ eclicked' = TRUE /\ eresult' = "True" /\ epc' = "ret"
       \/ epc' = "l167" /\ UNCHANGED <<eclicked, eresult>>
    /\ UNCHANGED <<emax, eattempt, escans, ekeyword>> /\ notError

\* lines 167-169: except Exception: time.sleep(2); continue
ErrorRetry_GivesUp ==
    /\ epc = "l167"
    /\ epc' = "ret" /\ eresult' = "False"
    /\ UNCHANGED <<emax, eattempt, escans, eclicked, ekeyword>> /\ notError
ErrorRetry ==
    /\ epc = "l167"
    /\ eattempt' = eattempt + 1 /\ epc' = "l152"
    /\ UNCHANGED <<emax, escans, eclicked, ekeyword, eresult>> /\ notError

\* lines 351-354: the loop goes on while the call returned True
DrainTest ==
    /\ epc = "ret"
    /\ epc' = IF eresult = "True" THEN "l352" ELSE "drained"
    /\ UNCHANGED <<emax, eattempt, escans, eclicked, ekeyword, eresult>>
    /\ notError

NextError ==
    \/ DrainCall \/ ErrorLoop \/ ErrorScan \/ ErrorFind \/ ErrorClick
    \/ ErrorRetry \/ DrainTest

(***************************************************************************)
(* src/server.py: the methods of AppState that touch the log buffer and    *)
(* the frame, run by the worker threads (print hooks, monitor) and by the  *)
(* handler threads (get_status, gen_frames).                               *)
(***************************************************************************)
\* Worker threads: hooked_print -> add_log (line 77), update_frame (lines 96,
\* 111).  Handler threads: get_logs (line 199), get_frame (line 158).
LockWorkers == {"w1", "w2"}
LockHandlers == {"h1", "h2"}
LockThreads == LockWorkers \cup LockHandlers

InitLocks ==
    /\ kpc = [t \in LockThreads |-> "idle"]
    /\ lock = "free" /\ frame_lock = "free"

notLocks ==
    UNCHANGED <<serverVars, logVars, ledgerVars, loginVars, callVars,
                accountsVars, stripeVars, errorVars, trialVars>>

KGoto(t, l) == kpc' = [kpc EXCEPT ![t] = l]

\* a thread calls one of the methods: line 52 (add_log), 59 (get_logs),
\* 63 (update_frame), 67 (get_frame)
MethodCall(t) ==
    /\ kpc[t] = "idle"
    /\ \E l \in IF t \in LockWorkers THEN {"l52", "l63"} ELSE {"l59", "l67"} :
          KGoto(t, l)
    /\ UNCHANGED <<lock, frame_lock>> /\ notLocks

\* line 52: timestamp = datetime.now().strftime(...); line 53: with self.lock
AddLogAcquire(t) ==
    /\ kpc[t] = "l52" /\ lock = "free"
    /\ lock' = t /\ KGoto(t, "l54")
    /\ UNCHANGED frame_lock /\ notLocks

\* line 54: self.logs.append(...)
AddLogAppend(t) ==
    /\ kpc[t] = "l54"
    /\ KGoto(t, "l55")
    /\ UNCHANGED <<lock, frame_lock>> /\ notLocks

\* lines 55-56: if len(self.logs) > 1000: self.logs.pop(0); the with ends
AddLogRelease(t) ==
    /\ kpc[t] = "l55"
    /\ lock' = "free" /\ KGoto(t, "idle")
    /\ UNCHANGED frame_lock /\ notLocks

\* line 59: with self.lock
GetLogsAcquire_NoLock(t) ==
    /\ kpc[t] = "l59"
    /\ KGoto(t, "l60")
    /\ UNCHANGED <<lock, frame_lock>> /\ notLocks
GetLogsAcquire(t) ==
    /\ kpc[t] = "l59" /\ lock = "free"
    /\ lock' = t /\ KGoto(t, "l60")
    /\ UNCHANGED frame_lock /\ notLocks

\* line 60: return list(self.logs[start_index:]); the with ends
GetLogsRelease(t) ==
    /\ kpc[t] = "l60"
    /\ lock' = IF lock = t THEN "free" ELSE lock
    /\ KGoto(t, "idle")
    /\ UNCHANGED frame_lock /\ notLocks

\* line 63: with self.frame_lock
UpdateFrameAcquire(t) ==
    /\ kpc[t] = "l63" /\ frame_lock = "free"
    /\ frame_lock' = t /\ KGoto(t, "l64")
    /\ UNCHANGED lock /\ notLocks

\* line 64: self.last_frame = frame_bytes; the with ends
UpdateFrameRelease(t) ==
    /\ kpc[t] = "l64"
    /\ frame_lock' = "free" /\ KGoto(t, "idle")
    /\ UNCHANGED lock /\ notLocks

\* line 67: with self.frame_lock
GetFrameAcquire(t) ==
    /\ kpc[t] = "l67" /\ frame_lock = "free"
    /\ frame_lock' = t /\ KGoto(t, "l68")
    /\ UNCHANGED lock /\ notLocks

\* line 68: return self.last_frame; the with ends
GetFrameRelease(t) ==
    /\ kpc[t] = "l68"
    /\ frame_lock' = "free" /\ KGoto(t, "idle")
    /\ UNCHANGED lock /\ notLocks

NextLocks ==
    \E t \in LockThreads :
        \/ MethodCall(t)
        \/ AddLogAcquire(t) \/ AddLogAppend(t) \/ AddLogRelease(t)
        \/ GetLogsAcquire(t) \/ GetLogsRelease(t)
        \/ UpdateFrameAcquire(t) \/ UpdateFrameRelease(t)
        \/ GetFrameAcquire(t) \/ GetFrameRelease(t)


(***************************************************************************)
(* src/browser.py: subscribe_plus_trial(driver), lines 725-1255: the       *)
(* search for the Plus button, the submission loop and the final poll.     *)
(* The page decides what every lookup finds; each lookup is a choice.      *)
(***************************************************************************)
\* line 748: if retry_count > 3: return False
max_retry_count == 3
\* line 1086: max_attempts = 5
max_attempts == 5
\* line 1215: while time.time() - start_time < 30
poll_window == 30
\* line 1248: time.sleep(2)
poll_sleep == 2
\* seconds one iteration of the poll spends in the driver, beside the sleep
Latencies == {0, 8}

\* lines 1128-1129: all_frames = [None] + frames, with the main document
\* written "top" and a payment page of two iframes
all_frames == <<"top", "frame1", "frame2">>

\* line 827: if retry_count == 0: the page is refreshed after a miss
\* (a search that refreshed after every miss)
refresh_after_miss_Always(count) == TRUE
refresh_after_miss(count) == count = 0

\* driver.current_url during the poll
UrlHome ==
    <<"h", "t", "t", "p", "s", ":", "/", "/", "c", "h", "a", "t", "g", "p", "t", ".", "c", "o", "m", "/">>
UrlOldHome ==
    <<"h", "t", "t", "p", "s", ":", "/", "/", "c", "h", "a", "t", ".", "o", "p", "e", "n", "a", "i", ".", "c", "o", "m", "/">>
UrlPricing ==
    <<"h", "t", "t", "p", "s", ":", "/", "/", "c", "h", "a", "t", "g", "p", "t", ".", "c", "o", "m", "/", "#", "p", "r", "i", "c", "i", "n", "g">>
UrlPayment ==
    <<"h", "t", "t", "p", "s", ":", "/", "/", "c", "h", "a", "t", "g", "p", "t", ".", "c", "o", "m", "/", "p", "a", "y", "m", "e", "n", "t">>
UrlCheckout ==
    <<"h", "t", "t", "p", "s", ":", "/", "/", "p", "a", "y", ".", "o", "p", "e", "n", "a", "i", ".", "c", "o", "m", "/", "c">>
UrlSignIn ==
    <<"h", "t", "t", "p", "s", ":", "/", "/", "a", "u", "t", "h", ".", "o", "p", "e", "n", "a", "i", ".", "c", "o", "m", "/", "?", "t", "o", "=", "c", "h", "a", "t", "g", "p", "t", ".", "c", "o", "m">>
TrialUrls == {UrlHome, UrlOldHome, UrlPricing, UrlPayment, UrlCheckout, UrlSignIn}

\* line 1220: the test of success signal 1 on current_url
url_is_home(current_url) ==
    /\ \/ Contains(current_url, <<"c", "h", "a", "t", "g", "p", "t", ".", "c", "o", "m">>)
       \/ Contains(current_url, <<"c", "h", "a", "t", ".", "o", "p", "e", "n", "a", "i", ".", "c", "o", "m">>)
    /\ ~Contains(current_url, <<"p", "r", "i", "c", "i", "n", "g">>)
    /\ ~Contains(current_url, <<"p", "a", "y", "m", "e", "n", "t">>)

InitTrial ==
    /\ tpc = "idle" /\ retry_count = 0 /\ entered = 0 /\ refreshes = 0
    /\ search_result = "none"
    /\ attempt = 0 /\ clicks = 0 /\ tctx = "top" /\ tscan = 0
    /\ check_result = "none" /\ elapsed = 0 /\ seen = <<>>
    /\ tresult = "none"

notTrial ==
    UNCHANGED <<serverVars, logVars, ledgerVars, loginVars, callVars,
                accountsVars, stripeVars, errorVars, lockVars>>
searchUnchanged == UNCHANGED <<retry_count, entered, refreshes, search_result>>
loopUnchanged == UNCHANGED <<attempt, clicks, tctx, tscan, check_result>>
pollUnchanged == UNCHANGED <<elapsed, seen>>

\* lines 1253-1255: except Exception as e: print; return False
Caught == tresult' = "False" /\ tpc' = "done"

\* lines 725-747, 835: driver.get of the pricing page, then the call
\* find_and_click_subscribe() with retry_count = 0
TrialCall ==
    /\ tpc = "idle"
    /\ \/ tpc' = "l748" /\ UNCHANGED tresult
       \/ Caught
    /\ searchUnchanged /\ loopUnchanged /\ pollUnchanged /\ notTrial

\* line 748: find_and_click_subscribe(retry_count) is entered
SearchEnter ==
    /\ tpc = "l748"
    /\ entered' = entered + 1
    /\ IF retry_count > max_retry_count
         THEN search_result' = "False" /\ tpc' = "l835"
         ELSE tpc' = "l750" /\ UNCHANGED search_result
    /\ UNCHANGED <<retry_count, refreshes, tresult>>
    /\ loopUnchanged /\ pollUnchanged /\ notTrial

\* lines 750-824: the tour popups are dismissed and the Personal tab chosen
\* (every failure is caught), then each xpath is tried: the first displayed
\* button is clicked and True returned; a click that is intercepted calls
\* find_and_click_subscribe(retry_count + 1) and returns what it returns
SearchPass ==
    /\ tpc = "l750"
    /\ \/ search_result' = "True" /\ tpc' = "l835" /\ UNCHANGED retry_count
       \/ retry_count' = retry_count + 1 /\ tpc' = "l748"
            /\ UNCHANGED search_result
       \* no xpath gave a displayed button
       \/ tpc' = "l827" /\ UNCHANGED <<retry_count, search_result>>
    /\ UNCHANGED <<entered, refreshes, tresult>>
    /\ loopUnchanged /\ pollUnchanged /\ notTrial

\* lines 827-833: after a miss the first call refreshes the page and calls
\* find_and_click_subscribe(retry_count + 1); a later call returns False
SearchMiss ==
    /\ tpc = "l827"
    /\ IF refresh_after_miss(retry_count)
         THEN /\ refreshes' = refreshes + 1
              /\ \/ /\ retry_count' = retry_count + 1 /\ tpc' = "l748"
                    /\ UNCHANGED <<search_result, tresult>>
                 \* driver.refresh() raises
                 \/ Caught /\ UNCHANGED <<retry_count, search_result>>
         ELSE /\ search_result' = "False" /\ tpc' = "l835"
              /\ UNCHANGED <<retry_count, refreshes, tresult>>
    /\ UNCHANGED entered
    /\ loopUnchanged /\ pollUnchanged /\ notTrial

\* lines 835-839: the search has returned; lines 841-1082: the payment page
\* is awaited and the address and the card are filled in
SearchReturn ==
    /\ tpc = "l835"
    /\ IF search_result = "False"
         THEN tresult' = "False" /\ tpc' = "done"
         ELSE \/ tpc' = "l1087" /\ UNCHANGED tresult
              \/ Caught
    /\ searchUnchanged /\ loopUnchanged /\ pollUnchanged /\ notTrial

\* lines 1087-1129: an attempt of loop_submit_and_fix: default_content(), the
\* submit button is clicked if it is found, a challenge checkbox is clicked
\* if one shows (lines 1104-1123 end in default_content()), and the iframes
\* of the page are listed
LoopAttempt ==
    /\ tpc = "l1087" /\ attempt < max_attempts
    /\ attempt' = attempt + 1
    /\ clicks' \in {clicks, clicks + 1}
    /\ tctx' = "top"
    /\ \/ tscan' = 1 /\ tpc' = "l1131" /\ UNCHANGED <<check_result, tresult>>
       \* find_elements of line 1128 raises
       \/ check_result' = "raised" /\ Caught /\ UNCHANGED tscan
    /\ searchUnchanged /\ pollUnchanged /\ notTrial

\* lines 1131-1136: the next of all_frames is entered; a frame that cannot
\* be entered is passed over
LoopEnterFrame ==
    /\ tpc = "l1131" /\ tscan <= Len(all_frames)
    /\ \/ tctx' = all_frames[tscan] /\ tpc' = "l1139" /\ UNCHANGED tscan
       \/ /\ all_frames[tscan] # "top"
          /\ tscan' = tscan + 1 /\ UNCHANGED <<tctx, tpc>>
    /\ UNCHANGED <<attempt, clicks, check_result, tresult>>
    /\ searchUnchanged /\ pollUnchanged /\ notTrial

\* lines 1139-1197: the error texts are looked for in the document entered;
\* when one is there the empty fields are filled in again (lines 1142-1194),
\* and the loop over the frames ends (line 1197)
LoopFindErrors ==
    /\ tpc = "l1139"
    /\ \/ /\ tctx' = "top" /\ tscan' = tscan + 1 /\ tpc' = "l1131"
          /\ UNCHANGED <<check_result, tresult>>
       \/ /\ tctx' = "top" /\ tpc' = "l1087"
          /\ UNCHANGED <<tscan, check_result, tresult>>
       \* find_elements of line 1139, 1162, 1177 or 1187 raises
       \/ /\ check_result' = "raised" /\ Caught
          /\ UNCHANGED <<tctx, tscan>>
    /\ UNCHANGED <<attempt, clicks>>
    /\ searchUnchanged /\ pollUnchanged /\ notTrial

\* lines 1199-1201: no document showed an error: return True
LoopNoErrors ==
    /\ tpc = "l1131" /\ tscan > Len(all_frames)
    /\ check_result' = "True" /\ tpc' = "l1208"
    /\ UNCHANGED <<attempt, clicks, tctx, tscan, tresult>>
    /\ searchUnchanged /\ pollUnchanged /\ notTrial

\* lines 1087, 1205: the attempts are used up: return False
LoopExhausted ==
    /\ tpc = "l1087" /\ attempt = max_attempts
    /\ check_result' = "False" /\ tpc' = "l1208"
    /\ UNCHANGED <<attempt, clicks, tctx, tscan, tresult>>
    /\ searchUnchanged /\ pollUnchanged /\ notTrial

\* lines 1208-1214: check_result = loop_submit_and_fix(); start_time
PollStart ==
    /\ tpc = "l1208"
    /\ elapsed' = 0 /\ tpc' = "l1215"
    /\ UNCHANGED <<seen, tresult>>
    /\ searchUnchanged /\ loopUnchanged /\ notTrial

\* lines 1215-1248: one iteration of the poll: the URL is read and tested,
\* then the welcome dialog is looked for, then a payment error, which is
\* printed; the iteration ends with time.sleep(2)
PollIteration ==
    /\ tpc = "l1215" /\ elapsed < poll_window
    /\ \/ \E url \in TrialUrls, dialog \in BOOLEAN, inline \in BOOLEAN,
            latency \in Latencies :
            /\ seen' = [current_url |-> url, dialog |-> dialog,
                        error_msg |-> inline]
            /\ IF url_is_home(url) \/ dialog
                 THEN /\ tresult' = "True" /\ tpc' = "done"
                      /\ UNCHANGED elapsed
                 ELSE /\ elapsed' = IF elapsed + latency + poll_sleep
                                         > poll_window
                                      THEN poll_window
                                      ELSE elapsed + latency + poll_sleep
                      /\ UNCHANGED <<tpc, tresult>>
       \* driver.current_url raises
       \/ Caught /\ seen' = <<>> /\ UNCHANGED elapsed
    /\ searchUnchanged /\ loopUnchanged /\ notTrial

\* lines 1250-1251: the window has passed: return False
PollTimeout ==
    /\ tpc = "l1215" /\ elapsed >= poll_window
    /\ tresult' = "False" /\ tpc' = "done"
    /\ UNCHANGED <<elapsed, seen>>
    /\ searchUnchanged /\ loopUnchanged /\ notTrial

NextTrial ==
    \/ TrialCall \/ SearchEnter \/ SearchPass \/ SearchMiss \/ SearchReturn
    \/ LoopAttempt \/ LoopEnterFrame \/ LoopFindErrors \/ LoopNoErrors
    \/ LoopExhausted \/ PollStart \/ PollIteration \/ PollTimeout

(***************************************************************************)
(* The components a specification leaves at rest.                          *)
(***************************************************************************)
LedgerAtRest ==
    /\ inodes = [id \in InodeIds |-> <<>>] /\ paths = [n \in PathNames |-> 0]
    /\ clock = 0 /\ ncalls = 0
    /\ spc = "idle" /\ sargs = <<>> /\ snorm = <<>> /\ swritten = 0
    /\ soutcome = "none" /\ sold = <<>> /\ committed = NoFile
    /\ rpc = "idle" /\ rino = 0 /\ rpos = 0 /\ rlines = <<>> /\ rsnap = <<>>

ServerAtRest == InitServer
LogAtRest == InitLog

LoginAtRest ==
    /\ lpc = "idle" /\ lenv = <<>> /\ lresult = "none"

CallAtRest ==
    /\ fop = "none" /\ fin = <<>> /\ fout = <<>>

AccountsAtRest ==
    /\ apc = "idle" /\ afile = NoFile /\ apos = 0 /\ accounts = <<>>
    /\ aerr = "none" /\ aresp = <<>>

TrialAtRest ==
    /\ tpc = "idle" /\ retry_count = 0 /\ entered = 0 /\ refreshes = 0
    /\ search_result = "none"
    /\ attempt = 0 /\ clicks = 0 /\ tctx = "top" /\ tscan = 0
    /\ check_result = "none" /\ elapsed = 0 /\ seen = <<>>
    /\ tresult = "none"

LocksAtRest ==
    /\ kpc = [t \in LockThreads |-> "idle"]
    /\ lock = "free" /\ frame_lock = "free"

ErrorAtRest ==
    /\ epc = "idle" /\ emax = 0 /\ eattempt = 0 /\ escans = 0
    /\ eclicked = FALSE /\ ekeyword = "none" /\ eresult = "none"

StripeAtRest ==
    /\ dpc = "idle" /\ dctx = <<>> /\ dcalled = <<>> /\ dstack = <<>>
    /\ dret = FALSE /\ dresult = "none" /\ draised = {} /\ dfill = {}
    /\ dshown = {} /\ dtried = <<>>

Init ==
    /\ InitServer /\ InitLog /\ LedgerAtRest /\ LoginAtRest /\ CallAtRest
    /\ AccountsAtRest /\ StripeAtRest
    /\ ErrorAtRest /\ LocksAtRest /\ TrialAtRest

Next == NextServer

Spec == Init /\ [][Next]_vars

SpecLog == Init /\ [][NextLog]_vars

InitSpecLedger ==
    /\ ServerAtRest /\ LogAtRest /\ InitLedger /\ LoginAtRest /\ CallAtRest
    /\ AccountsAtRest /\ StripeAtRest
    /\ ErrorAtRest /\ LocksAtRest /\ TrialAtRest

SpecLedger == InitSpecLedger /\ [][NextLedger]_vars

SpecLedgerDelimited == InitSpecLedger /\ [][NextLedgerDelimited]_vars

InitSpecLogin ==
    /\ ServerAtRest /\ LogAtRest /\ LedgerAtRest /\ InitLogin /\ CallAtRest
    /\ AccountsAtRest /\ StripeAtRest
    /\ ErrorAtRest /\ LocksAtRest /\ TrialAtRest

SpecLogin == InitSpecLogin /\ [][NextLogin]_vars

InitSpecParse ==
    /\ ServerAtRest /\ LogAtRest /\ LedgerAtRest /\ LoginAtRest /\ InitParse
    /\ AccountsAtRest /\ StripeAtRest
    /\ ErrorAtRest /\ LocksAtRest /\ TrialAtRest

SpecParse == InitSpecParse /\ [][NextParse]_vars

InitSpecAccounts ==
    /\ ServerAtRest /\ LogAtRest /\ LedgerAtRest /\ LoginAtRest /\ CallAtRest
    /\ InitAccounts /\ StripeAtRest
    /\ ErrorAtRest /\ LocksAtRest /\ TrialAtRest

SpecAccounts == InitSpecAccounts /\ [][NextAccounts]_vars

InitSpecStripe ==
    /\ ServerAtRest /\ LogAtRest /\ LedgerAtRest /\ LoginAtRest /\ CallAtRest
    /\ AccountsAtRest /\ InitStripe
    /\ ErrorAtRest /\ LocksAtRest /\ TrialAtRest

SpecStripe == InitSpecStripe /\ [][NextStripe]_vars

InitSpecBirthday ==
    /\ ServerAtRest /\ LogAtRest /\ LedgerAtRest /\ LoginAtRest
    /\ InitBirthday /\ AccountsAtRest /\ StripeAtRest
    /\ ErrorAtRest /\ LocksAtRest /\ TrialAtRest

SpecBirthday == InitSpecBirthday /\ [][NextBirthday]_vars

InitSpecPassword ==
    /\ ServerAtRest /\ LogAtRest /\ LedgerAtRest /\ LoginAtRest
    /\ InitPassword /\ AccountsAtRest /\ StripeAtRest
    /\ ErrorAtRest /\ LocksAtRest /\ TrialAtRest

SpecPassword == InitSpecPassword /\ [][NextPassword]_vars

InitSpecBilling ==
    /\ ServerAtRest /\ LogAtRest /\ LedgerAtRest /\ LoginAtRest
    /\ InitBilling /\ AccountsAtRest /\ StripeAtRest
    /\ ErrorAtRest /\ LocksAtRest /\ TrialAtRest

SpecBilling == InitSpecBilling /\ [][NextBilling]_vars

InitSpecExtract ==
    /\ ServerAtRest /\ LogAtRest /\ LedgerAtRest /\ LoginAtRest
    /\ InitExtract /\ AccountsAtRest /\ StripeAtRest
    /\ ErrorAtRest /\ LocksAtRest /\ TrialAtRest

SpecExtract == InitSpecExtract /\ [][NextExtract]_vars

InitSpecError ==
    /\ ServerAtRest /\ LogAtRest /\ LedgerAtRest /\ LoginAtRest
    /\ CallAtRest /\ AccountsAtRest /\ StripeAtRest
    /\ InitError /\ LocksAtRest /\ TrialAtRest

SpecError == InitSpecError /\ [][NextError]_vars

InitSpecLocks ==
    /\ ServerAtRest /\ LogAtRest /\ LedgerAtRest /\ LoginAtRest
    /\ CallAtRest /\ AccountsAtRest /\ StripeAtRest
    /\ ErrorAtRest /\ InitLocks /\ TrialAtRest

SpecLocks == InitSpecLocks /\ [][NextLocks]_vars

InitSpecTrial ==
    /\ ServerAtRest /\ LogAtRest /\ LedgerAtRest /\ LoginAtRest
    /\ CallAtRest /\ AccountsAtRest /\ StripeAtRest
    /\ ErrorAtRest /\ LocksAtRest /\ InitTrial

SpecTrial == InitSpecTrial /\ [][NextTrial]_vars

\* the thread that runs the loop is scheduled: it takes a step when it can
SpecErrorFair == InitSpecError /\ [][NextError]_vars /\ WF_vars(NextError)

\* the thread that runs subscribe_plus_trial is scheduled, and every driver
\* call and sleep returns or raises
SpecTrialFair == InitSpecTrial /\ [][NextTrial]_vars /\ WF_vars(NextTrial)

(***************************************************************************)
(* Properties of the control server, checked under Spec.                   *)
(***************************************************************************)

\* C1 (as claimed): single-flight -- in every reachable state at most one
\* worker thread exists, whatever the interleaving of the start requests and
\* of the first steps of the threads they start.
C1_SingleFlight == Cardinality({w \in Workers : Live(w)}) <= 1

\* C2 (as claimed): once a stop has been acknowledged while a run is active,
\* the worker of that run passes no further check of the stop flag at the
\* head of its loop (lines 115-118), so it starts no further iteration: the
\* flag is neither lost nor overwritten before the worker has observed it.
C2_NoIterationAfterStop ==
    [][\A w \in Workers :
          w \in stopAcked => ~(wpc[w] = "loop" /\ wpc'[w] = "l120")]_vars

\* The step in which handler h evaluates the guard of start_task (line 204)
\* resp. of stop_task (line 215), and the step that follows the stop guard.
AtStartGuard(h) == hpc[h] = "s204" /\ hpc'[h] # "s204"
AtStopGuard(h) == hpc[h] = "p215" /\ hpc'[h] # "p215"
AfterStopGuard(h) == hpc[h] = "p218" /\ hpc'[h] # "p218"

C11_ExceptionCountedOnce ==
    [][\A w \in Workers :
          /\ (wpc[w] = "reg" /\ wpc'[w] = "l134w") =>
                UNCHANGED <<success_count, fail_count>>
          /\ (wpc[w] = "l134w" /\ wpc'[w] # "l134w") =>
                /\ fail_count' = fail_count + 1
                /\ success_count' = success_count
                /\ wpc'[w] = "l138"
          /\ (wpc[w] # "l148" /\ wpc'[w] = "l148") =>
                (wi[w] >= wcount[w] \/ stop_requested)]_vars

\* C12: the step in which the monitor's interruption ends a registration is
\* taken with a stop requested and changes neither success_count nor
\* fail_count; the steps by which that worker then ends its run (lines
\* 148-149) change neither counter; and a worker that has left its loop
\* never starts another registration.
C12_InterruptIsCleanStop ==
    [][\A w \in Workers :
          /\ (wpc[w] = "reg" /\ wpc'[w] = "l148") =>
                /\ stop_requested
                /\ UNCHANGED <<success_count, fail_count>>
          /\ (wpc[w] \in {"l148", "l149"} /\ wpc'[w] # wpc[w]) =>
                UNCHANGED <<success_count, fail_count>>
          /\ wpc[w] \in {"l148", "l149", "exited"} =>
                wpc'[w] \in {"l148", "l149", "exited"}]_vars

\* C12 witness: the only worker ever started has been interrupted in its
\* second registration (the first one was counted) and is about to end the
\* run.
C12_Witness ==
    \E w \in Workers :
       /\ wpc[w] = "l148" /\ stop_requested
       /\ wi[w] = 1 /\ wcount[w] = 2
       /\ current_action = <<"registering", 2, 2>>
       /\ success_count + fail_count = 1
       /\ \A v \in Workers \ {w} : wpc[v] = "unborn"

(***************************************************************************)
(* Properties of the log buffer, checked under SpecLog.                    *)
(***************************************************************************)

\* C6 (as claimed): a client that polls /api/status with log_index = the
\* number of entries it has received has, after each poll, received every
\* entry appended so far exactly once and in append order.
C6_ClientSeesEveryEntryOnce ==
    clientLog = [i \in 1..polledAt |-> i]

\* C7: the log buffer never holds more than 1000 entries; an add_log on a
\* full buffer removes exactly the oldest entry and appends the new one at
\* the end, the other entries keeping their order (and an add_log on a
\* buffer that is not full only appends).
C7_RingBuffer ==
    /\ [](Len(logs) <= LogCapacity)
    /\ [][appended' = appended + 1 =>
            IF Len(logs) = LogCapacity
              THEN /\ Len(logs') = LogCapacity
                   /\ \A i \in 1..(LogCapacity - 1) : logs'[i] = logs[i + 1]
                   /\ logs'[LogCapacity] = appended + 1
              ELSE logs' = Append(logs, appended + 1)]_vars

\* C7 witness: the 1001st entry has been pushed and the first one is gone.
C7_Witness ==
    /\ appended = LogCapacity + 1
    /\ Len(logs) = LogCapacity
    /\ logs[1] = 2
    /\ logs[LogCapacity] = LogCapacity + 1

(***************************************************************************)
(* Properties of the account ledger, checked under SpecLedger.             *)
(***************************************************************************)

\* The emails the lines of a ledger text parse to, one entry per line that
\* parse_account_line accepts
ParsedEmails(text) ==
    LET lines == IF text = NoFile THEN <<>> ELSE ReadLines(text)
        recs == [i \in 1..Len(lines) |-> parse_account_line(lines[i])]
    IN  [i \in {j \in 1..Len(lines) : recs[j].ok} |-> recs[i].email]

\* C5 (as claimed): after a save_to_txt call that has replaced the ledger,
\* whatever the ledger held before (pipe lines, legacy lines, comments,
\* several lines for one email), no two lines of it parse to the same email.
C5_AtMostOneLinePerEmail ==
    (spc = "idle" /\ soutcome = "ok") =>
        LET emails == ParsedEmails(LedgerText)
        IN  \A i, j \in DOMAIN emails : emails[i] = emails[j] => i = j

IsPrefix(part, whole) ==
    /\ Len(part) <= Len(whole)
    /\ SubSeq(whole, 1, Len(part)) = part

\* C8: the ledger path always names a complete version of the ledger (the
\* initial one, or all the lines of a finished call); a reader running
\* alongside the writer reads exactly the text of the complete version the
\* ledger had when it opened the file; while a call is in progress the ledger is the
\* one the call found; and a call that fails before the rename returns
\* normally with the ledger content unchanged.
C8_AtomicReplace ==
    /\ [](LedgerText = committed)
    /\ [](rpc = "reading" => IsPrefix(Join(rlines), rsnap))
    /\ []((rpc = "done" /\ rino # 0) => Join(rlines) = rsnap)
    /\ [](spc # "idle" => LedgerText = sold[2] /\ paths[LedgerPath] = sold[1])
    /\ [][(spc # "idle" /\ spc' = "idle" /\ soutcome' # "ok") =>
             /\ soutcome' = "caught"
             /\ LedgerText' = LedgerText
             /\ paths'[LedgerPath] = paths[LedgerPath]]_vars

\* C8 witness: a reader has read the whole of the old ledger although a call
\* has replaced the ledger since it opened the file, and a later call has
\* failed after writing part of the temp file.
C8_Witness ==
    /\ rpc = "done" /\ rino # 0
    /\ rsnap # TextModeRead(committed)
    /\ Join(rlines) = rsnap
    /\ soutcome = "caught"
    /\ Exists(tmp_path(LedgerPath))
    /\ Content(tmp_path(LedgerPath)) # <<>>
    /\ committed # NoFile

\* The lines of a ledger text as readlines returns them
LinesOf(text) == IF text = NoFile THEN <<>> ELSE ReadLines(text)

\* The step in which a call replaces the ledger
Replacing == spc = "l255" /\ spc' = "idle" /\ soutcome' = "ok"

\* A call has written all its lines to the temp file, which the rename of
\* line 256 is about to put in the ledger's place
AllWritten == spc = "l255" /\ swritten = Len(snorm)

\* C13: when a call has written the file that replaces the ledger, every
\* line of the ledger that parses to the call's email is, at the same
\* position of the new file, a record of that email whose password is the
\* stored one if the call supplied none, and is "N/A" only if the call
\* supplied none and none was stored.
C13_KeepsStoredPassword ==
    AllWritten =>
        LET old == LinesOf(LedgerText)
            new == LinesOf(Content(tmp_path(LedgerPath)))
        IN  \A i \in 1..Len(old) :
               LET stored == parse_account_line(old[i])
               IN  (stored.ok /\ stored.email = sargs.email) =>
                      /\ i <= Len(new)
                      /\ LET kept == parse_account_line(new[i])
                         IN  /\ kept.ok
                             /\ kept.email = sargs.email
                             /\ sargs.password = PyNone =>
                                   kept.password = stored.password
                             /\ kept.password = NA =>
                                   (sargs.password = PyNone
                                      /\ stored.password = NA)

\* C13 witness: a call without a password has written all its lines for
\* an email whose line stored a password, and another call without a
\* password for an email whose line stored none.
C13_Witness ==
    /\ AllWritten
    /\ sargs.password = PyNone
    /\ ncalls = 2
    /\ \E i \in 1..Len(LinesOf(LedgerText)) :
          LET stored == parse_account_line(LinesOf(LedgerText)[i])
          IN  stored.ok /\ stored.email = sargs.email /\ stored.password # NA
    /\ \E i \in 1..Len(LinesOf(LedgerText)) :
          LET other == parse_account_line(LinesOf(LedgerText)[i])
          IN  other.ok /\ other.email # sargs.email /\ other.password = NA

\* The canonical pipe form of a record: email | password | status | time
PipeForm(rec) ==
    rec.email \o <<" ", "|", " ">> \o rec.password \o <<" ", "|", " ">>
        \o rec.status \o <<" ", "|", " ">> \o rec.time \o <<"\n">>

\* Some line of the ledger parses to this email
Matched(lines, email) ==
    \E i \in 1..Len(lines) :
       parse_account_line(lines[i]).ok /\ parse_account_line(lines[i]).email = email

\* C14 (as claimed): when a call for email e replaces the ledger, every line
\* that parsed to a record of another email is, at the same position of the
\* new ledger, that record in canonical pipe form (same email, password,
\* status and normalized time); the new ledger has the lines of the old one
\* in their order, and, when no line parsed to e, exactly one more line at
\* the end, which is a row for e.
C14_OtherRecordsKept ==
    [][Replacing =>
          LET old == LinesOf(LedgerText)
              new == LinesOf(LedgerText')
          IN  /\ Len(new) = IF Matched(old, sargs.email) THEN Len(old)
                                                          ELSE Len(old) + 1
              /\ \A i \in 1..Len(old) :
                    LET rec == parse_account_line(old[i])
                    IN  (rec.ok /\ rec.email # sargs.email) =>
                           /\ i <= Len(new)
                           /\ new[i] = PipeForm(rec)
                           /\ parse_account_line(new[i]) = rec
              /\ ~Matched(old, sargs.email) =>
                    /\ new # <<>>
                    /\ parse_account_line(new[Len(new)]).ok
                    /\ parse_account_line(new[Len(new)]).email = sargs.email]_vars

\* C15 (as claimed): when a call replaces the ledger, every line of the old
\* ledger that the parser rejects (a comment, a blank line, anything else it
\* returns None for) is, at the same position of the new ledger, the same
\* line character for character.
C15_RejectedLinesVerbatim ==
    [][Replacing =>
          LET old == LinesOf(LedgerText)
              new == LinesOf(LedgerText')
          IN  \A i \in 1..Len(old) :
                 ~parse_account_line(old[i]).ok =>
                     (i <= Len(new) /\ new[i] = old[i])]_vars

(***************************************************************************)
(* Properties of login, checked under SpecLogin.                           *)
(***************************************************************************)

\* C9 (as claimed): a login call that reaches the wait for the password
\* field and finds none ends with the exception raised to its caller, not
\* with a return value.
C9_NoPasswordFieldRaises ==
    (/\ lpc = "done"
     /\ lenv.get_ok /\ lenv.email_found /\ lenv.continue_found
     /\ ~lenv.password_found)
        => lresult = "raised"

\* C10 (as claimed): login returns True only if the URL read after the
\* password was submitted does not contain "auth".
C10_TrueOnlyWithoutAuth ==
    lresult = "True" => ~Contains(lenv.current_url, AuthWord)

(***************************************************************************)
(* Properties of the ledger parsers, checked under SpecParse.              *)
(***************************************************************************)

\* C16: each parser returns the same result for the pipe line and for the
\* legacy line of one record: None for both when the email has no "@",
\* else a record with the stripped email and status, the password (in
\* src/utils.py "N/A" when it is empty) and the time as YYYY-MM-DD HH:MM:SS,
\* whether the pipe line wrote it with dashes or slashes and the legacy line
\* as YYYYMMDD_HHMMSS.
C16_FormatsAgree ==
    fop \in {"utils.parse_account_line", "server.parse_account_line"} =>
        /\ fout[1] = fout[2]
        /\ fout[1].ok = Contains(fin.email, <<"@">>)
        /\ fout[1].ok =>
              /\ fout[1].email = Strip(fin.email)
              /\ fout[1].status = fin.status
              /\ fout[1].time = DatedText(fin.date, "-")
              /\ fout[1].password =
                    IF fop = "utils.parse_account_line" /\ fin.password = <<>>
                      THEN NA ELSE fin.password

\* C16 witness: the record of a line without password, dated 2024/02/29 in
\* the pipe line, has been parsed by the parser of src/utils.py.
C16_Witness ==
    /\ fop = "utils.parse_account_line"
    /\ fin.sep = "/" /\ fin.date.set /\ fin.date.day = 29
    /\ fin.password = <<>> /\ fin.email = PaddedEmail
    /\ fout[2].ok /\ fout[2].password = NA
    /\ fout[2].time = DatedText(fin.date, "-")

(***************************************************************************)
(* Properties of GET /api/accounts, checked under SpecAccounts.            *)
(***************************************************************************)

\* C17 (as claimed): a request in which reading the ledger failed is
\* answered with HTTP status 200.
C17_ReadFailureIs200 ==
    (apc = "done" /\ aerr # "none") => aresp[1] = 200

\* C17 (amended): a request in which opening or reading the ledger raised is
\* answered, by the step that follows the exception, with HTTP status 500
\* and the body {"error": str(e)}; every other request is answered 200 with
\* the list of the records read.
C17_ReadFailureIs500 ==
    /\ [][apc = "l282" => (apc' = "done" /\ aresp' = <<500, [error |-> aerr]>>)]_vars
    /\ [](apc = "done" =>
            IF aerr # "none" THEN aresp = <<500, [error |-> aerr]>>
            ELSE aresp = <<200, Reversed(accounts)>>)

\* C17 witness: the read failed after a record had been parsed, and the
\* request was answered 500.
C17_Witness ==
    /\ apc = "done" /\ aerr = "Input/output error"
    /\ apos > 0 /\ accounts # <<>>
    /\ aresp[1] = 500

\* C18: when handle_stripe_input has returned, True or False, the driver is
\* in the document it was called in, the top-level document, whatever
\* is_displayed, switch_to.frame and find_elements raised on the way.
C18_ContextRestored ==
    (dpc = "done" /\ dresult \in {"True", "False"})
        => dctx = dcalled /\ dctx = <<>>

\* find_elements, is_displayed and switch_to.frame have each raised during
\* the search, and the call has returned False
C18_Witness ==
    /\ dpc = "done" /\ dresult = "False"
    /\ draised = {"l686", "l691", "l694"}

\* The date a returned (year, month, day) of strings names
ReturnedBirthday ==
    [year |-> ToInt(fout[1]), month |-> ToInt(fout[2]), day |-> ToInt(fout[3])]

\* C19: every birthday generate_random_birthday returns, on the Faker path and
\* on the fallback path, for every current date, gives an age on the current
\* date within MIN_AGE..MAX_AGE = 18..65.
C19_AgeInRange ==
    fop = "generate_random_birthday"
        => Age(ReturnedBirthday, fin.today) \in MIN_AGE..MAX_AGE

\* C20: generate_random_password(12) has length 12 and has an uppercase
\* letter at position 0, a lowercase letter at position 1, a digit at
\* position 2 and one of !@#$% at position 3 (so at least one of each),
\* whatever was drawn.
C20_TwelveWithFourClasses ==
    (fop = "generate_random_password" /\ fin.length = 12)
        => /\ Len(fout) = 12
           /\ fout[1] \in ascii_uppercase
           /\ fout[2] \in ascii_lowercase
           /\ fout[3] \in digits
           /\ fout[4] \in {"!", "@", "#", "$", "%"}

\* the draw had lowercase letters only
C20_Witness ==
    /\ fop = "generate_random_password" /\ fin.length = 12
    /\ fin.password = [i \in 1..12 |-> "a"]
    /\ Len(fout) = 12

\* C21: for every requested length, lengths below 4 included,
\* generate_random_password returns a string of exactly that length.
C21_ExactLength ==
    fop = "generate_random_password" => Len(fout) = fin.length

\* C22 as stated: generate_billing_info("US"), in any letter case, yields a
\* state in {Delaware, Oregon, Montana, New Hampshire} and every other country
\* code a state in {Tokyo, Osaka}, on the Faker path and on the fallback path.
C22_StateOfCountry ==
    fop = "generate_billing_info"
        => IF PyUpper(fin.country) = <<"U", "S">>
           THEN fout.state \in {"Delaware", "Oregon", "Montana",
                                "New Hampshire"}
           ELSE fout.state \in {"Tokyo", "Osaka"}

\* C22 amended: for "US" the state is one of the four on the Faker path and
\* New York on the fallback path; every other code gives Tokyo or Osaka on
\* both paths.
C22_StateOfCountryByPath ==
    fop = "generate_billing_info"
        => IF PyUpper(fin.country) = <<"U", "S">>
           THEN IF fin.FAKER_AVAILABLE
                THEN fout.state \in {"Delaware", "Oregon", "Montana",
                                     "New Hampshire"}
                ELSE fout.state = "New York"
           ELSE fout.state \in {"Tokyo", "Osaka"}

\* a lower-case "us" on the fallback path
C22_Witness ==
    /\ fop = "generate_billing_info" /\ fin.country = <<"u", "s">>
    /\ ~fin.FAKER_AVAILABLE /\ fout.state = "New York"

\* The code the mail holds: that of the first piece among the pieces whose
\* pattern has the highest priority, PyNone when no piece has a code
ExpectedCode(pieces) ==
    LET found == {i \in 1..Len(pieces) : pieces[i].pattern # 0}
    IN  IF found = {} THEN PyNone
        ELSE LET best == CHOOSE i \in found :
                     \A k \in found :
                        \/ pieces[i].pattern < pieces[k].pattern
                        \/ pieces[i].pattern = pieces[k].pattern /\ i <= k
             IN  pieces[best].code

\* C23: extract_verification_code tries its patterns in priority order and
\* returns the first match of the first pattern that matches anywhere in the
\* text, also when a match of a later pattern stands earlier in the text; it
\* returns no value for an empty text and when no pattern matches.
C23_PriorityOrder ==
    fop = "extract_verification_code" => fout = ExpectedCode(fin)

\* a bare number stands before "verification code", which stands before the
\* Chinese phrase, whose code is returned
C23_Witness ==
    /\ fop = "extract_verification_code" /\ Len(fin) = 3
    /\ fin[1].pattern = 4 /\ fin[2].pattern = 3 /\ fin[3].pattern = 1
    /\ fout = fin[3].code

\* C24: check_and_handle_error returns False without a click when the page
\* text has no error keyword; it returns True exactly when a keyword is there
\* and the "Try again" control was clicked; and when the keyword is there but
\* the control keeps missing, it reads the page max_retries times, never
\* more, and then returns False.
C24_ReturnValues ==
    epc = "ret"
        => /\ ekeyword = "no" => (eresult = "False" /\ ~eclicked)
           /\ eresult = "True" <=> (ekeyword = "yes" /\ eclicked)
           /\ escans <= emax
           /\ (eresult = "False" /\ ekeyword = "yes") => escans = emax

\* the keyword was there at each of three reads and the control never was
C24_Witness ==
    /\ epc = "ret" /\ eresult = "False" /\ ekeyword = "yes"
    /\ emax = 3 /\ escans = 3 /\ ~eclicked

\* C29: the loop `while check_and_handle_error(driver)` of fill_signup_form
\* and enter_verification_code always terminates, also when the page keeps
\* showing an error keyword together with a clickable "Try again" control.
C29_DrainTerminates == <>(epc = "drained")

\* C25: in every reachable state is_running is true when a worker thread
\* exists, between its spawn and its exit, and false when none exists.
C25_RunningIffWorkerExists ==
    is_running <=> (\E w \in Workers : Live(w))

\* The registrations of the run of worker w that have returned or raised
\* another exception than the interruption, once their result is tallied
Tallied(w) ==
    IF wpc[w] \in {"l138", "sleep"} THEN wi[w] + 1 ELSE wi[w]

\* C26: during a run for a count N the counters start at 0, success_count +
\* fail_count is the number of registrations of the run that have returned
\* or raised another exception than the interruption, so never more than N,
\* and a run that is not stopped ends with success_count + fail_count = N.
C26_CountersTallyRun ==
    \A w \in Workers :
        /\ wpc[w] \in {"l93", "l96"} => success_count + fail_count = 0
        /\ wpc[w] \in {"loop", "l120", "reg", "l110", "l138", "sleep",
                       "l148", "l149"}
              => /\ success_count + fail_count = Tallied(w)
                 /\ success_count + fail_count <= wcount[w]
        /\ (wpc[w] \in {"l148", "l149"} /\ ~stop_requested)
              => success_count + fail_count = wcount[w]

\* C27: the worker starts a pacing sleep only between two iterations, never
\* after the last one nor after a stop was requested; its duration is a whole
\* number of seconds in interval_min..interval_max; and the stop flag is
\* checked before every tick of one second, so that no tick begins once a
\* stop was requested.
C27_PacingSleep ==
    [][\A w \in Workers :
          /\ (wpc[w] = "l138" /\ wpc'[w] = "sleep")
                => /\ wi[w] < wcount[w] - 1
                   /\ ~stop_requested /\ w \notin stopAcked
                   /\ wticks'[w] \in Intervals
          /\ (wpc[w] = "sleep" /\ wticks'[w] < wticks[w])
                => (~stop_requested /\ w \notin stopAcked)]_vars

\* The threads that are at a statement that reads or changes the log buffer,
\* or the frame
InLogs == {t \in LockThreads : kpc[t] \in {"l54", "l55", "l60"}}
InFrame == {t \in LockThreads : kpc[t] \in {"l64", "l68"}}
\* the threads that wait for a lock
WaitsForLock == {t \in LockThreads : kpc[t] \in {"l52", "l59"}}
WaitsForFrameLock == {t \in LockThreads : kpc[t] \in {"l63", "l67"}}

\* C28: changes of the log buffer exclude each other and reads of it, writes
\* of the frame exclude reads of it, no thread holds the log lock and the
\* frame lock together, and no thread waits for a lock whose holder waits
\* too: no deadlock.
C28_LocksExclusive ==
    /\ Cardinality(InLogs) <= 1
    /\ Cardinality(InFrame) <= 1
    /\ \A t \in LockThreads : ~(lock = t /\ frame_lock = t)
    /\ \A t \in WaitsForLock :
          lock = "free" \/ lock \notin (WaitsForLock \cup WaitsForFrameLock)
    /\ \A t \in WaitsForFrameLock :
          frame_lock = "free"
             \/ frame_lock \notin (WaitsForLock \cup WaitsForFrameLock)

\* a worker appends under the log lock while a handler waits for it, the
\* other worker writes the frame and the other handler waits for that
C28_Witness ==
    /\ kpc["w1"] = "l54" /\ kpc["h1"] = "l59" /\ lock = "w1"
    /\ kpc["w2"] = "l64" /\ kpc["h2"] = "l67" /\ frame_lock = "w2"


\* The record that a ledger text holds for an email with the given
\* password and status
HoldsRecord(text, email, password, status) ==
    \E i \in 1..Len(LinesOf(text)) :
       LET rec == parse_account_line(LinesOf(text)[i])
       IN  /\ rec.ok
           /\ rec.email = email
           /\ rec.password = password
           /\ rec.status = status

\* C30: when a call of save_to_txt(email, password, status) with a password
\* replaces the ledger, the new ledger has a line that parses to a record of
\* that email whose password and status are exactly the strings passed in,
\* also when they contain "|", "----" or surrounding spaces.
C30_RoundTrip ==
    [][Replacing =>
          HoldsRecord(LedgerText', sargs.email, sargs.password,
                      sargs.status)]_vars


\* C31: when a call of save_to_txt for an email that no line of the ledger
\* parses to replaces the ledger, the new ledger has a line that parses to a
\* record of that email with the status of the call, whatever the ledger
\* held before, also when its last line was a comment or a rejected line
\* with no newline after it.
C31_NewEmailRecorded ==
    [][(Replacing /\ ~Matched(LinesOf(LedgerText), sargs.email)) =>
          \E i \in 1..Len(LinesOf(LedgerText')) :
             LET rec == parse_account_line(LinesOf(LedgerText')[i])
             IN  rec.ok /\ rec.email = sargs.email
                        /\ rec.status = sargs.status]_vars


\* C32: the parser of get_accounts and the parser of save_to_txt accept the
\* same lines and give the same email, password, status and time for each,
\* in the pipe format and in the legacy format, also for a line whose
\* password field is empty.
C32_ParsersAgree ==
    fop = "server.parse_account_line" =>
        /\ fout[1] = parse_account_line(PipeLine(fin))
        /\ fout[2] = parse_account_line(LegacyLine(fin))


\* try_fill has tried every selector in the top-level document, first of all
MainTriedFirst ==
    /\ Len(dtried) >= Len(selectors)
    /\ \A k \in 1..Len(selectors) : dtried[k] = <<<<>>, k>>

\* C33: the driver is in an iframe, or try_fill has looked into one, only
\* after try_fill has tried every selector in the main document; every
\* iframe entered is displayed; and no frame entered lies more than two
\* levels below the top-level document.
C33_MainFirstVisibleTwoLevels ==
    /\ (dctx # <<>> \/ \E n \in 1..Len(dtried) : dtried[n][1] # <<>>)
          => MainTriedFirst
    /\ dctx # <<>> => dctx \in dshown
    /\ Len(dctx) <= 2
    /\ \A n \in 1..Len(dtried) :
          /\ Len(dtried[n][1]) <= 2
          /\ dtried[n][1] # <<>> => dtried[n][1] \in dshown

\* C33 witness: the field is in a displayed frame three levels down; the
\* search has tried both selectors in the main document, in a top-level
\* frame and in a frame of the second level, and has returned False
C33_Witness ==
    /\ dpc = "done" /\ dresult = "False"
    /\ dfill = {<<<<1, 1, 1>>, 1>>} /\ <<1, 1, 1>> \in dshown
    /\ \E a, b \in 1..Len(dtried) :
          /\ dtried[a] = <<<<1>>, 2>>
          /\ dtried[b] = <<<<1, 1>>, 2>>
          /\ a < b


\* The frame that the traverse_frames call at level n of the stack is at
FrameAt(n) == dstack[n].frames[dstack[n].i]

\* The document whose iframes the innermost traverse_frames call goes
\* through: the top-level document, or the frame its caller has entered
LoopDocument ==
    IF Len(dstack) = 1 THEN <<>> ELSE FrameAt(Len(dstack) - 1)

\* C34: in the traversal, try_fill in a frame (line 697) and the
\* enumeration of the iframes of that frame (line 686) run while the driver
\* is in that frame; and whenever the loop of a traverse_frames call goes on
\* to its next frame (line 688), after a frame was skipped, searched, or
\* left by an exception, the driver is in the document whose iframes the
\* loop goes through.
C34_ContextFollowsTraversal ==
    /\ dpc = "l697" => dctx = DFrame
    /\ (dpc = "l682" /\ dstack # <<>>) => dctx = DFrame
    /\ dpc = "l688" => dctx = LoopDocument


\* C35: the submission loop clicks the submit button at most 5 times; when
\* it returns True the scan of its last attempt went through the main
\* document and every iframe and found no error text; it goes to a further
\* attempt only after an attempt that found one; when it returns False five
\* attempts have been made; and however the loop is left, the driver is in
\* the top-level document.
C35_SubmitLoop ==
    /\ clicks <= 5
    /\ check_result = "True" => attempt >= 1 /\ tscan > Len(all_frames)
    /\ check_result = "False" => attempt = 5
    /\ check_result # "none" => tctx = "top"


\* C36: subscribe_plus_trial does not return True in a run in which
\* loop_submit_and_fix used up its 5 attempts with error texts still found
\* (it returned False).
C36_NoSuccessAfterExhaustedLoop ==
    tresult = "True" => check_result # "False"


\* The host of a URL: what stands between "://" and the next "/"
UrlHost(url) ==
    LET rest == SubSeq(url, Find(url, <<":", "/", "/">>) + 3, Len(url))
        slash == Find(rest, <<"/">>)
    IN  IF slash = 0 THEN rest ELSE SubSeq(rest, 1, slash - 1)

AppHosts ==
    { <<"c", "h", "a", "t", "g", "p", "t", ".", "c", "o", "m">>,
      <<"c", "h", "a", "t", ".", "o", "p", "e", "n", "a", "i", ".", "c", "o", "m">> }

\* A success signal: the URL is on the app host and contains neither
\* "pricing" nor "payment", or the welcome dialog is displayed
SuccessSignal(obs) ==
    \/ /\ UrlHost(obs.current_url) \in AppHosts
       /\ ~Contains(obs.current_url, <<"p", "r", "i", "c", "i", "n", "g">>)
       /\ ~Contains(obs.current_url, <<"p", "a", "y", "m", "e", "n", "t">>)
    \/ obs.dialog

\* C37: subscribe_plus_trial returns True from the poll only when, within
\* the window of 30 seconds, the iteration saw a success signal; the poll
\* ends on an iteration without a success signal, with or without a
\* displayed payment error, only when the window has passed; and when the
\* window has passed the result is False.
C37_PollOutcome ==
    /\ tresult = "True" => seen # <<>> /\ SuccessSignal(seen) /\ elapsed < 30
    /\ (tpc = "done" /\ seen # <<>> /\ ~SuccessSignal(seen)) => elapsed >= 30
    /\ (tpc = "done" /\ seen # <<>> /\ elapsed >= 30) => tresult = "False"


\* find_and_click_subscribe() has returned, or has been left by an exception
SearchOver == search_result # "none" \/ tpc = "done"

\* C38: the search for the Plus button ends; the page is refreshed at most
\* once, and only by the first pass, which is then retried;
\* find_and_click_subscribe is entered at most 5 times, with retry_count
\* 0..4; and it returns False only when retry_count has passed the bound or
\* a pass after the first has missed, never from the first pass.
C38_SearchBounded ==
    /\ [](/\ refreshes <= 1
          /\ entered <= 5
          /\ retry_count \in 0..4
          /\ entered <= retry_count + 1
          /\ (refreshes = 1 /\ tpc # "done") => retry_count >= 1
          /\ search_result = "False" => retry_count >= 1)
    /\ <>SearchOver

\* C38 witness: the first pass missed and the page was refreshed, the later
\* passes were retried after intercepted clicks, and the fifth call returned
\* False at once
C38_Witness ==
    /\ search_result = "False"
    /\ entered = 5 /\ retry_count = 4 /\ refreshes = 1


\* C39: on the fallback path generate_random_birthday returns a date of the
\* calendar: the month is in 1..12 and the day in 1..max_day, where max_day
\* is 31 or 30 by the month and, for February, 29 when the year is divisible
\* by 4 and not by 100, or by 400, and 28 otherwise; the month and the day
\* are written with two digits.
C39_FallbackValidDate ==
    (fop = "generate_random_birthday" /\ ~fin.FAKER_AVAILABLE) =>
        LET year == ReturnedBirthday.year
            month == ReturnedBirthday.month
            day == ReturnedBirthday.day
            leap == (year % 4 = 0 /\ year % 100 # 0) \/ year % 400 = 0
        IN  /\ month \in 1..12
            /\ day >= 1
            /\ month \in {1, 3, 5, 7, 8, 10, 12} => day <= 31
            /\ month \in {4, 6, 9, 11} => day <= 30
            /\ month = 2 => day <= IF leap THEN 29 ELSE 28
            /\ day <= DaysIn(year, month)
            /\ Len(fout[2]) = 2 /\ Len(fout[3]) = 2
            /\ AllDigits(fout[2]) /\ AllDigits(fout[3])

\* C39 witness: the fallback path has returned 29 February 2000, a year
\* divisible by 400, as ("2000", "02", "29")
C39_Witness ==
    /\ fop = "generate_random_birthday" /\ ~fin.FAKER_AVAILABLE
    /\ fout = <<<<"2", "0", "0", "0">>, <<"0", "2">>, <<"2", "9">>>>

====
